---------------------------- MODULE Spec2Model ----------------------------
(***************************************************************************)
(* Model of the mnmncs repository: the SHA-256 / SHA-512 / HMAC / PBKDF2   *)
(* primitives of cpto.c, the Base58 / BIP-32 key formatting of             *)
(* bip32_key_derivation.c and the BIP-39 mnemonic pipeline of mnemonics.c. *)
(*                                                                         *)
(* Bytes are naturals in 0..255, C arrays are sequences (C index k is      *)
(* sequence index k+1).  A 32/64-bit hash word is the sequence of its      *)
(* bytes, most significant first.  The 64 (80) arithmetic rounds of the    *)
(* compression functions are replaced by an order-sensitive mixing of the  *)
(* message schedule into the chaining value (Rounds): everything around    *)
(* the rounds - block framing, padding, length field, chaining order,      *)
(* digest serialisation, and all callers - is modelled step by step.       *)
(***************************************************************************)
EXTENDS Integers, Sequences, FiniteSets, TLC

VARIABLES
  pc,         \* position of the modelled call or program
  args,       \* arguments of the library call under study
  mem,        \* locals and out-parameters of that call
  num,        \* mnemonics main: size_t num
  filename,   \* mnemonics main: char *filename (a wordlist file or NULL)
  entropy,    \* mnemonics main: unsigned char *entropy
  num_words,  \* mnemonics main: size_t num_words
  words       \* mnemonics main: char **words (NULL or the selected words)

vars == <<pc, args, mem, num, filename, entropy, num_words, words>>
callVars == <<pc, args, mem>>
mainVars == <<num, filename, entropy, num_words, words>>

\* ------------------------------------------------------------------ bounds
MaxLen == 130        \* longest message handed directly to sha256 / sha512

\* ------------------------------------------------------------ evaluation
\* Let(v, F): F applied to the value of v.  v is evaluated once and its value
\* is bound to F's parameter (a C local initialised with v).
Let(v, F(_)) == CHOOSE r \in {F(x) : x \in {v}} : TRUE

\* the same for two and for three values
Let2(v, w, F(_, _)) == CHOOSE r \in {F(x, y) : x \in {v}, y \in {w}} : TRUE

Let3(u, v, w, F(_, _, _)) ==
  CHOOSE r \in {F(x, y, z) : x \in {u}, y \in {v}, z \in {w}} : TRUE

\* --------------------------------------------------------- byte utilities
NULL == <<"NULL">>

Uninit == -1         \* content of an automatic array before its first write

Zeros(n) == [k \in 1..n |-> 0]

Fill(n, b) == [k \in 1..n |-> b]

\* v >> s for a value below 2^31 (every length of the model is)
Shr(v, s) == IF s >= 31 THEN 0 ELSE v \div (2 ^ s)

\* memset(a + off, b, n), within the array a
Memset(a0, off, b, n) ==
  Let(a0, LAMBDA a :
    IF n <= 0 THEN a
    ELSE SubSeq(a, 1, off) \o Fill(n, b) \o SubSeq(a, off + n + 1, Len(a)))

\* memcpy(a + off, src, n), within the array a
Memcpy(a0, off, src, n) ==
  Let(a0, LAMBDA a :
    IF n <= 0 THEN a
    ELSE SubSeq(a, 1, off) \o SubSeq(src, 1, n)
           \o SubSeq(a, off + n + 1, Len(a)))

\* the n bytes src[from .. from+n-1] (C indices)
Bytes(src, from, n) == SubSeq(src, from + 1, from + n)

\* a deterministic test message of L bytes
DataOf(L, seed) == [p \in 1..L |-> (seed + 37 * p) % 256]

\* ------------------------------------------------- compression (abstract)
\* reduction of the mixing arithmetic
MixMod(x) == x % 32749

\* byte k of the chaining value h followed by the 16 message words w[0..15]
\* (the block read as big-endian words), most significant byte first
MixByte(h, block, wb, k) ==
  IF k <= 8 * wb THEN h[((k - 1) \div wb) + 1][((k - 1) % wb) + 1]
  ELSE block[k - 8 * wb]

\* order-sensitive digest of the 4^e bytes from position lo of the chaining
\* value and the message words: the sum of the bytes, each weighted by its
\* position (by quarters, to keep the evaluation shallow)
RECURSIVE MixBytes(_, _, _, _, _)
MixBytes(h, block, wb, lo, e) ==
  IF lo > 24 * wb THEN 0
  ELSE IF e = 0
       THEN (MixByte(h, block, wb, lo) + 2) * (1 + ((lo * 37) % 101))
  ELSE MixMod(MixBytes(h, block, wb, lo, e - 1)
              + MixBytes(h, block, wb, lo + 4 ^ (e - 1), e - 1)
              + MixBytes(h, block, wb, lo + 2 * 4 ^ (e - 1), e - 1)
              + MixBytes(h, block, wb, lo + 3 * 4 ^ (e - 1), e - 1))

\* the words ws flattened to bytes, most significant byte first
Flatten(ws, wb) ==
  SubSeq([k \in 1..(Len(ws) * wb) |->
           ws[((k - 1) \div wb) + 1][((k - 1) % wb) + 1]], 1, Len(ws) * wb)

\* the rounds and the final h[i] += ... of one block
Rounds(h, block, wb) ==
  Let(MixMod(MixBytes(h, block, wb, 1, 4)), LAMBDA acc :
    SubSeq([i \in 1..8 |->
      SubSeq([j \in 1..wb |->
        (h[i][j] + acc + ((i - 1) * wb + j) * ((acc \div 256) + 1)) % 256],
        1, wb)], 1, 8))

\* digest[i*wb + j] = (h[i] >> (8*(wb-1-j))) & 0xFF
Serialise(h, wb) == Flatten(h, wb)

\* (bit_len >> (56 - 8*j)) & 0xFF for j = 0..7
LenBytes(bit_len) == [j \in 1..8 |-> Shr(bit_len, 56 - 8 * (j - 1)) % 256]

\* ---------------------------------------------------------------- SHA-512
H512 ==
  << <<106, 9, 230, 103, 243, 188, 201, 8>>,
     <<187, 103, 174, 133, 132, 202, 167, 59>>,
     <<60, 110, 243, 114, 254, 148, 248, 43>>,
     <<165, 79, 245, 58, 95, 29, 54, 241>>,
     <<81, 14, 82, 127, 173, 230, 130, 209>>,
     <<155, 5, 104, 140, 43, 62, 108, 31>>,
     <<31, 131, 217, 171, 251, 65, 189, 107>>,
     <<91, 224, 205, 25, 19, 126, 33, 121>> >>

SHA512_BLOCK_SIZE == 128

SHA512_DIGEST_SIZE == 64

\* state of the sha512 loop: i, block_len, block, h, the blocks compressed so
\* far (fed) and whether a write left the 128-byte block (ub)
Sha512Start ==
  [i |-> 0, block_len |-> 0, block |-> Fill(SHA512_BLOCK_SIZE, Uninit),
   h |-> H512, fed |-> <<>>, ub |-> FALSE]

Compress512(s0) ==
  Let(s0, LAMBDA s :
    [s EXCEPT !.h = Rounds(s.h, s.block, 8), !.fed = Append(s.fed, s.block),
              !.block_len = 0])

\* if (i == len) block[block_len++] = 0x80;
Sha512Mark(s, len) ==
  IF s.i # len THEN s
  ELSE IF s.block_len >= SHA512_BLOCK_SIZE
       THEN [s EXCEPT !.ub = TRUE]
       ELSE [s EXCEPT !.block[s.block_len + 1] = 128,
                      !.block_len = s.block_len + 1]

\* if (block_len > block_size - 16) { memset; compress; block_len = 0; }
Sha512Spill(s) ==
  IF s.block_len > SHA512_BLOCK_SIZE - 16
  THEN Compress512([s EXCEPT !.block =
         Memset(s.block, s.block_len, 0, SHA512_BLOCK_SIZE - s.block_len)])
  ELSE s

\* if (block_len <= block_size - 16) { memset; block_len = block_size - 16; }
Sha512Pad(s) ==
  IF s.block_len <= SHA512_BLOCK_SIZE - 16
  THEN [s EXCEPT !.block = Memset(s.block, s.block_len, 0,
                                  (SHA512_BLOCK_SIZE - 16) - s.block_len),
                 !.block_len = SHA512_BLOCK_SIZE - 16]
  ELSE s

\* the two length loops (bit_len_high = 0) and "Process the final block"
Sha512Length(s, len) ==
  Compress512([s EXCEPT !.block =
    Memcpy(Memcpy(s.block, SHA512_BLOCK_SIZE - 16, LenBytes(0), 8),
           SHA512_BLOCK_SIZE - 8, LenBytes(len * 8), 8)])

\* if (i < len) block[block_len++] = data[i];   and the loop's i++
Sha512Store(s0, data, len) ==
  Let(s0, LAMBDA s :
    IF s.i < len
    THEN [s EXCEPT !.block[s.block_len + 1] = data[s.i + 1],
                   !.block_len = s.block_len + 1, !.i = s.i + 1]
    ELSE [s EXCEPT !.i = s.i + 1])

\* one iteration of for (; i <= len; i++)
Sha512Iter(s, data, len) ==
  IF s.i = len \/ s.block_len = SHA512_BLOCK_SIZE
  THEN Let(Sha512Mark(s, len), LAMBDA m :
         IF m.ub THEN m
         ELSE Let(Sha512Spill(m), LAMBDA a :
                Sha512Store(Sha512Length(Sha512Pad(a), len), data, len)))
  ELSE Sha512Store(s, data, len)

\* the n = min(len - i, block_size - block_len) iterations that follow: in
\* each of them i < len and the block is not full, so each only stores a byte
Sha512Stores(s, data, len) ==
  IF s.ub \/ len - s.i <= 0 \/ SHA512_BLOCK_SIZE - s.block_len <= 0 THEN s
  ELSE IF len - s.i < SHA512_BLOCK_SIZE - s.block_len
  THEN [s EXCEPT !.block = Memcpy(s.block, s.block_len,
                                  Bytes(data, s.i, len - s.i), len - s.i),
                 !.block_len = s.block_len + (len - s.i), !.i = len]
  ELSE [s EXCEPT !.block = Memcpy(s.block, s.block_len,
                             Bytes(data, s.i, SHA512_BLOCK_SIZE - s.block_len),
                             SHA512_BLOCK_SIZE - s.block_len),
                 !.block_len = SHA512_BLOCK_SIZE,
                 !.i = s.i + (SHA512_BLOCK_SIZE - s.block_len)]

RECURSIVE Sha512Loop(_, _, _)
Sha512Loop(s, data, len) ==
  IF s.ub \/ s.i > len THEN s
  ELSE Let(Sha512Iter(s, data, len), LAMBDA t :
         Sha512Loop(Sha512Stores(t, data, len), data, len))

\* sha512(data, len, digest): the blocks compressed and the digest written;
\* ub marks the run whose 0x80 write and memset leave the block array
sha512(data0) ==
  Let(data0, LAMBDA data :
    Let(Sha512Loop(Sha512Start, data, Len(data)), LAMBDA s :
      [ub |-> s.ub, fed |-> s.fed,
       digest |-> IF s.ub THEN <<>> ELSE Serialise(s.h, 8)]))

\* ---------------------------------------------------------------- SHA-256
H256 ==
  << <<106, 9, 230, 103>>,
     <<187, 103, 174, 133>>,
     <<60, 110, 243, 114>>,
     <<165, 79, 245, 58>>,
     <<81, 14, 82, 127>>,
     <<155, 5, 104, 140>>,
     <<31, 131, 217, 171>>,
     <<91, 224, 205, 25>> >>

SHA256_BLOCK_SIZE == 64

Sha256Start ==
  [i |-> 0, block_len |-> 0, block |-> Fill(SHA256_BLOCK_SIZE, Uninit),
   h |-> H256, fed |-> <<>>]

\* mutant of Sha256Mark: the 0x80 byte is never written
Sha256MarkWithoutBit(s, len) ==
  IF s.block_len < SHA256_BLOCK_SIZE
  THEN [s EXCEPT !.block = Memset(s.block, s.block_len, 0,
                                  SHA256_BLOCK_SIZE - s.block_len)]
  ELSE s

\* if (block_len < 64) { memset; if (i == len) block[block_len] = 0x80; }
Sha256Mark(s, len) ==
  IF s.block_len < SHA256_BLOCK_SIZE
  THEN [s EXCEPT !.block =
         IF s.i = len
         THEN Memset(Memset(s.block, s.block_len, 0,
                            SHA256_BLOCK_SIZE - s.block_len),
                     s.block_len, 128, 1)
         ELSE Memset(s.block, s.block_len, 0,
                     SHA256_BLOCK_SIZE - s.block_len)]
  ELSE s

\* if (block_len <= 56) block[56 + j] = (bit_len >> (56 - j*8)) & 0xFF
Sha256Length(s, len) ==
  IF s.block_len <= 56
  THEN [s EXCEPT !.block = Memcpy(s.block, 56, LenBytes(len * 8), 8)]
  ELSE s

Compress256(s0) ==
  Let(s0, LAMBDA s :
    [s EXCEPT !.h = Rounds(s.h, s.block, 4), !.fed = Append(s.fed, s.block),
              !.block_len = 0])

Sha256Store(s0, data, len) ==
  Let(s0, LAMBDA s :
    IF s.i < len
    THEN [s EXCEPT !.block[s.block_len + 1] = data[s.i + 1],
                   !.block_len = s.block_len + 1, !.i = s.i + 1]
    ELSE [s EXCEPT !.i = s.i + 1])

\* one iteration of for (size_t i = 0; i <= len; i++)
Sha256Iter(s, data, len) ==
  IF s.i = len \/ s.block_len = SHA256_BLOCK_SIZE
  THEN Sha256Store(Compress256(Sha256Length(Sha256Mark(s, len), len)),
                   data, len)
  ELSE Sha256Store(s, data, len)

\* the n = min(len - i, 64 - block_len) iterations that follow: in each of
\* them i < len and the block is not full, so each only stores a byte
Sha256Stores(s, data, len) ==
  IF len - s.i <= 0 \/ SHA256_BLOCK_SIZE - s.block_len <= 0 THEN s
  ELSE IF len - s.i < SHA256_BLOCK_SIZE - s.block_len
  THEN [s EXCEPT !.block = Memcpy(s.block, s.block_len,
                                  Bytes(data, s.i, len - s.i), len - s.i),
                 !.block_len = s.block_len + (len - s.i), !.i = len]
  ELSE [s EXCEPT !.block = Memcpy(s.block, s.block_len,
                             Bytes(data, s.i, SHA256_BLOCK_SIZE - s.block_len),
                             SHA256_BLOCK_SIZE - s.block_len),
                 !.block_len = SHA256_BLOCK_SIZE,
                 !.i = s.i + (SHA256_BLOCK_SIZE - s.block_len)]

RECURSIVE Sha256Loop(_, _, _)
Sha256Loop(s, data, len) ==
  IF s.i > len THEN s
  ELSE Let(Sha256Iter(s, data, len), LAMBDA t :
         Sha256Loop(Sha256Stores(t, data, len), data, len))

\* sha256(data, len, hash)
sha256(data0) ==
  Let(data0, LAMBDA data :
    Let(Sha256Loop(Sha256Start, data, Len(data)), LAMBDA s :
      [fed |-> s.fed, digest |-> Serialise(s.h, 4)]))

\* ------------------------------------------------------------ HMAC-SHA512
Bit(a, i) == (a \div (2 ^ i)) % 2

\* a ^ b on bytes
Xor(a, b) ==
  LET x(i) == ((Bit(a, i) + Bit(b, i)) % 2) * (2 ^ i)
  IN  x(0) + x(1) + x(2) + x(3) + x(4) + x(5) + x(6) + x(7)

\* k after sha512(key, keylen, k): the digest in its first 64 bytes
HmacHashedKey(key) ==
  Let(sha512(key), LAMBDA r :
    [ub |-> r.ub,
     k |-> IF r.ub THEN Zeros(SHA512_BLOCK_SIZE)
           ELSE Memcpy(Zeros(SHA512_BLOCK_SIZE), 0, r.digest,
                       SHA512_DIGEST_SIZE)])

\* mutant of HmacKey: a key of exactly one block is hashed too
HmacKeyHashesFullBlock(key) ==
  IF Len(key) >= SHA512_BLOCK_SIZE
  THEN HmacHashedKey(key)
  ELSE [ub |-> FALSE, k |-> Memcpy(Zeros(SHA512_BLOCK_SIZE), 0, key, Len(key))]

\* uint8_t k[SHA512_BLOCK_SIZE] = {0}; then sha512(key, keylen, k) or
\* memcpy(k, key, keylen)
HmacKey(key) ==
  IF Len(key) > SHA512_BLOCK_SIZE
  THEN HmacHashedKey(key)
  ELSE [ub |-> FALSE, k |-> Memcpy(Zeros(SHA512_BLOCK_SIZE), 0, key, Len(key))]

\* o_key_pad[i] = k[i] ^ 0x5c;  i_key_pad[i] = k[i] ^ 0x36;
KeyPad(k, pad) ==
  SubSeq([i \in 1..SHA512_BLOCK_SIZE |-> Xor(k[i], pad)],
         1, SHA512_BLOCK_SIZE)

\* inner_data = i_key_pad || data, hashed
HmacInner(k, data) ==
  sha512(Memcpy(Memcpy(Fill(SHA512_BLOCK_SIZE + Len(data), Uninit),
                       0, KeyPad(k, 54), SHA512_BLOCK_SIZE),
                SHA512_BLOCK_SIZE, data, Len(data)))

\* outer_data = o_key_pad || inner_hash, hashed
HmacOuter(k, inner_hash) ==
  sha512(Memcpy(Memcpy(Fill(SHA512_BLOCK_SIZE + SHA512_DIGEST_SIZE, Uninit),
                       0, KeyPad(k, 92), SHA512_BLOCK_SIZE),
                SHA512_BLOCK_SIZE, inner_hash, SHA512_DIGEST_SIZE))

\* hmac_sha512(key, keylen, data, datalen, digest)
hmac_sha512(key0, data0) ==
  Let2(key0, data0, LAMBDA key, data :
    Let(HmacKey(key), LAMBDA kk :
      IF kk.ub THEN [ub |-> TRUE, digest |-> <<>>]
      ELSE Let(HmacInner(kk.k, data), LAMBDA inner :
             IF inner.ub THEN [ub |-> TRUE, digest |-> <<>>]
             ELSE Let(HmacOuter(kk.k, inner.digest), LAMBDA outer :
                    [ub |-> outer.ub, digest |-> outer.digest]))))

\* ------------------------------------------------------ PBKDF2-HMAC-SHA512
\* T[j] ^= U[j] for j < SHA512_DIGEST_SIZE
XorInto(T, U) ==
  SubSeq([j \in 1..SHA512_DIGEST_SIZE |-> Xor(T[j], U[j])],
         1, SHA512_DIGEST_SIZE)

\* for (i = 1; i < iterations; i++) { hmac_sha512(password, U, U); T ^= U; }
\* st = [U, T, ub]
RECURSIVE Pbkdf2Iterate(_, _, _, _)
Pbkdf2Iterate(st0, password, i, iterations) ==
  Let(st0, LAMBDA st :
    IF st.ub \/ i >= iterations THEN st
    ELSE Let(hmac_sha512(password, st.U), LAMBDA r :
           IF r.ub THEN [st EXCEPT !.ub = TRUE]
           ELSE Pbkdf2Iterate([U |-> r.digest, T |-> XorInto(st.T, r.digest),
                               ub |-> FALSE],
                              password, i + 1, iterations)))

\* mutant of IncrementCounter: the carry into the next byte is lost
IncrementCounterNoCarry(counter, i) ==
  [counter EXCEPT ![i + 1] = (counter[i + 1] + 1) % 256]

\* for (int i = 3; i >= 0; i--) { if (++counter[i] != 0) break; }
RECURSIVE IncrementCounter(_, _)
IncrementCounter(counter, i) ==
  IF i < 0 THEN counter
  ELSE IF (counter[i + 1] + 1) % 256 # 0
       THEN [counter EXCEPT ![i + 1] = (counter[i + 1] + 1) % 256]
       ELSE IncrementCounter([counter EXCEPT ![i + 1] = 0], i - 1)

\* the locals of pbkdf2_hmac_sha512 before its while loop; the caller's output
\* buffer is followed by SHA512_DIGEST_SIZE bytes that are not part of it
Pbkdf2Locals(salt, output_len) ==
  [counter |-> <<0, 0, 0, 1>>,
   salt_plus_counter |->
     Memcpy(Fill(Len(salt) + 4, Uninit), 0, salt, Len(salt)),
   output |-> Fill(output_len + SHA512_DIGEST_SIZE, Uninit),
   off |-> 0,
   output_len |-> output_len]

\* memcpy(salt_plus_counter + salt_len, counter, 4); hmac_sha512 into U;
\* memcpy(T, U); then the iterations
Pbkdf2Block(m, password, salt_len, iterations) ==
  Let(hmac_sha512(password,
                  Memcpy(m.salt_plus_counter, salt_len, m.counter, 4)),
      LAMBDA first :
    IF first.ub THEN [U |-> <<>>, T |-> <<>>, ub |-> TRUE]
    ELSE Pbkdf2Iterate([U |-> first.digest, T |-> first.digest, ub |-> FALSE],
                       password, 1, iterations))

\* one pass of while (output_len > 0) { ... }
Pbkdf2Pass(m, password, salt_len, iterations) ==
  Let(Pbkdf2Block(m, password, salt_len, iterations), LAMBDA st :
    Let(IF m.output_len < SHA512_DIGEST_SIZE
        THEN m.output_len ELSE SHA512_DIGEST_SIZE, LAMBDA to_copy :
      IF st.ub THEN [ub |-> TRUE, m |-> m]
      ELSE [ub |-> FALSE,
            m  |-> [counter |-> IncrementCounter(m.counter, 3),
                    salt_plus_counter |->
                      Memcpy(m.salt_plus_counter, salt_len, m.counter, 4),
                    output |-> Memcpy(m.output, m.off, st.T, to_copy),
                    off |-> m.off + to_copy,
                    output_len |-> m.output_len - to_copy]]))

\* ------------------------------------------- reference: standard padding
\* message || 0x80 || zeros || big-endian bit length in the last lb bytes,
\* the whole a multiple of bs bytes  (FIPS 180-4, 5.1)
StdPadded(data, bs, lb) ==
  data \o <<128>>
       \o Zeros((2 * bs - ((Len(data) + 1 + lb) % bs)) % bs)
       \o Zeros(lb - 8) \o LenBytes(8 * Len(data))

StdBlocks(data, bs, lb) ==
  Let(StdPadded(data, bs, lb), LAMBDA p :
    [b \in 1..(Len(p) \div bs) |-> Bytes(p, (b - 1) * bs, bs)])

\* --------------------------------------------------- hashing entry points
HashSeeds == {1, 128}

InitMain ==
  /\ num = 0 /\ filename = NULL /\ entropy = NULL
  /\ num_words = 0 /\ words = NULL

InitHash ==
  /\ pc = "call"
  /\ \E alg \in {"sha256", "sha512"}, L \in 0..MaxLen, seed \in HashSeeds :
       args = [fn |-> alg, data |-> DataOf(L, seed)]
  /\ mem = [fed |-> <<>>, digest |-> <<>>]
  /\ InitMain

\* what a run that wrote outside its block array may leave behind
AfterUB == {"crashed", "corrupt"}

Sha512Call ==
  /\ pc = "call" /\ args.fn = "sha512"
  /\ \E r \in {sha512(args.data)} :
       IF r.ub
       THEN /\ pc' \in AfterUB
            /\ mem' = [fed |-> r.fed, digest |-> <<>>]
       ELSE /\ pc' = "done"
            /\ mem' = [fed |-> r.fed, digest |-> r.digest]
  /\ UNCHANGED <<args, mainVars>>

Sha256Call ==
  /\ pc = "call" /\ args.fn = "sha256"
  /\ pc' = "done"
  /\ mem' = sha256(args.data)
  /\ UNCHANGED <<args, mainVars>>

NextHash == Sha512Call \/ Sha256Call

SpecHash == InitHash /\ [][NextHash]_vars


\* C1: for every input length L, the 128-byte blocks sha512 feeds to its
\* compression rounds are exactly the blocks of the standard padded message
\* (data, 0x80, zeros, 16-byte big-endian bit length), floor((L+16)/128)+1
\* blocks in all, and the call returns.
C1_Sha512FeedsStandardPadding ==
  (args.fn = "sha512" /\ pc # "call") =>
    /\ pc = "done"
    /\ mem.fed = StdBlocks(args.data, SHA512_BLOCK_SIZE, 16)
    /\ Len(mem.fed) = ((Len(args.data) + 16) \div SHA512_BLOCK_SIZE) + 1

\* C2: for every input length L, the 64-byte blocks sha256 feeds to its
\* compression rounds are exactly the blocks of the standard padded message
\* (data, 0x80, zeros, 8-byte big-endian bit length), floor((L+8)/64)+1
\* blocks in all.
C2_Sha256FeedsStandardPadding ==
  (args.fn = "sha256" /\ pc # "call") =>
    /\ pc = "done"
    /\ mem.fed = StdBlocks(args.data, SHA256_BLOCK_SIZE, 8)
    /\ Len(mem.fed) = ((Len(args.data) + 8) \div SHA256_BLOCK_SIZE) + 1

\* ------------------------------------------------------ HMAC entry point
MaxKeyLen == 130     \* longest HMAC key
MaxDataLen == 129    \* longest HMAC message

HmacKeyLens == {0, 1, 12, 127, 128, 129, MaxKeyLen, 256}

HmacDataLens == {0, 1, 4, 64, 68, 127, 128, MaxDataLen}

InitHmac ==
  /\ pc = "call"
  /\ \E kl \in HmacKeyLens, dl \in HmacDataLens, seed \in HashSeeds :
       args = [fn |-> "hmac_sha512", key |-> DataOf(kl, seed + 5),
               data |-> DataOf(dl, seed)]
  /\ mem = [digest |-> <<>>]
  /\ InitMain

HmacCall ==
  /\ pc = "call" /\ args.fn = "hmac_sha512"
  /\ \E r \in {hmac_sha512(args.key, args.data)} :
       /\ pc' \in (IF r.ub THEN AfterUB ELSE {"done"})
       /\ mem' = [digest |-> r.digest]
  /\ UNCHANGED <<args, mainVars>>

NextHmac == HmacCall

SpecHmac == InitHmac /\ [][NextHmac]_vars

\* reference: the HMAC construction over the repository's sha512
\* (RFC 2104 with B = 128)
RefHmacK(key) ==
  IF Len(key) > 128
  THEN sha512(key).digest \o Zeros(128 - 64)
  ELSE key \o Zeros(128 - Len(key))

RefPad(K, c) == SubSeq([i \in 1..128 |-> Xor(K[i], c)], 1, 128)

RefHmac(key, data) ==
  Let(RefHmacK(key), LAMBDA K :
    sha512(RefPad(K, 92) \o sha512(RefPad(K, 54) \o data).digest).digest)

\* some sha512 call of the construction leaves its block array
RefHmacUB(key, data) ==
  \/ Len(key) > 128 /\ sha512(key).ub
  \/ sha512(Zeros(128) \o data).ub

MaxBlocks == 1       \* whole 64-byte output blocks of the short requests
MaxIter == 2         \* largest iteration count
LongBlocks == 256    \* whole blocks of the one long request (counter carry)

OutLens ==
  {64 * b + r : b \in 0..MaxBlocks, r \in {0, 1, 63}}

Passwords == {DataOf(8, 3), DataOf(129, 3), DataOf(256, 3)}

Salts == {DataOf(0, 9), DataOf(12, 9)}

InitPbkdf2 ==
  /\ pc = "call"
  /\ \/ \E pw \in Passwords, sl \in Salts, it \in 0..MaxIter, ol \in OutLens :
          args = [fn |-> "pbkdf2_hmac_sha512", password |-> pw, salt |-> sl,
                  iterations |-> it, output_len |-> ol]
     \/ args = [fn |-> "pbkdf2_hmac_sha512", password |-> DataOf(8, 3),
                salt |-> DataOf(12, 9), iterations |-> 1,
                output_len |-> 64 * LongBlocks + 5]
  /\ mem = [output |-> <<>>]
  /\ InitMain

Pbkdf2Enter ==
  /\ pc = "call" /\ args.fn = "pbkdf2_hmac_sha512"
  /\ pc' = "while"
  /\ mem' = Pbkdf2Locals(args.salt, args.output_len)
  /\ UNCHANGED <<args, mainVars>>

Pbkdf2While ==
  /\ pc = "while" /\ mem.output_len > 0
  /\ \E r \in {Pbkdf2Pass(mem, args.password, Len(args.salt),
                          args.iterations)} :
       /\ pc' \in (IF r.ub THEN AfterUB ELSE {"while"})
       /\ mem' = r.m
  /\ UNCHANGED <<args, mainVars>>

Pbkdf2Return ==
  /\ pc = "while" /\ mem.output_len = 0
  /\ pc' = "done"
  /\ UNCHANGED <<args, mem, mainVars>>

NextPbkdf2 == Pbkdf2Enter \/ Pbkdf2While \/ Pbkdf2Return

SpecPbkdf2 == InitPbkdf2 /\ [][NextPbkdf2]_vars

\* reference: RFC 8018 5.2 over the repository's hmac_sha512
BE32(i) == [j \in 1..4 |-> (i \div (256 ^ (4 - j))) % 256]

\* st = [u, t]: U_c and U_1 XOR ... XOR U_c
RECURSIVE RefXorU(_, _, _, _)
RefXorU(P, S, i, c) ==
  IF c = 1
  THEN Let(hmac_sha512(P, S \o BE32(i)).digest, LAMBDA u : [u |-> u, t |-> u])
  ELSE Let(RefXorU(P, S, i, c - 1), LAMBDA a :
         Let(hmac_sha512(P, a.u).digest, LAMBDA u :
           [u |-> u, t |-> SubSeq([k \in 1..64 |-> Xor(a.t[k], u[k])], 1, 64)]))

\* T_lo || ... || T_hi (by halves, to keep the evaluation shallow)
RECURSIVE RefBlocks(_, _, _, _, _)
RefBlocks(P, S, c, lo, hi) ==
  IF lo > hi THEN <<>>
  ELSE IF lo = hi THEN RefXorU(P, S, lo, c).t
  ELSE LET mid == (lo + hi) \div 2
       IN  RefBlocks(P, S, c, lo, mid) \o RefBlocks(P, S, c, mid + 1, hi)

\* the first n bytes of T_1 || T_2 || ...
RefDerived(P, S, c, n) ==
  SubSeq(RefBlocks(P, S, c, 1, (n + 63) \div 64), 1, n)

alphabetOneAndTwoSwapped ==
  << "2", "1", "3", "4", "5", "6", "7", "8", "9", "A", "B", "C",
     "D", "E", "F", "G", "H", "J", "K", "L", "M", "N", "P", "Q",
     "R", "S", "T", "U", "V", "W", "X", "Y", "Z", "a", "b", "c",
     "d", "e", "f", "g", "h", "i", "j", "k", "m", "n", "o", "p",
     "q", "r", "s", "t", "u", "v", "w", "x", "y", "z" >>

\* const char *alphabet = "123456789ABC...xyz", one character per element
alphabet ==
  << "1", "2", "3", "4", "5", "6", "7", "8", "9", "A", "B", "C",
     "D", "E", "F", "G", "H", "J", "K", "L", "M", "N", "P", "Q",
     "R", "S", "T", "U", "V", "W", "X", "Y", "Z", "a", "b", "c",
     "d", "e", "f", "g", "h", "i", "j", "k", "m", "n", "o", "p",
     "q", "r", "s", "t", "u", "v", "w", "x", "y", "z" >>

\* the terminating '\0' of a C string
NUL == "NUL"

\* while (zeros < input_len && input[zeros] == 0) zeros++;  and likewise
\* while (result_start < output_size && buffer[result_start] == 0)
RECURSIVE CountZeros(_, _)
CountZeros(input, zeros) ==
  IF zeros < Len(input) /\ input[zeros + 1] = 0
  THEN CountZeros(input, zeros + 1)
  ELSE zeros

\* mutant of OutputSize: one digit for each input byte, and one more
OutputSizeOnePerByte(input_len) == input_len + 1

\* size_t output_size = input_len * 138 / 100 + 1;
OutputSize(input_len) == (input_len * 138) \div 100 + 1

\* mutant of Base58Step: the digit is scaled by 255
Base58StepScaledBy255(st, k) ==
  [buffer |-> [st.buffer EXCEPT
                 ![k + 1] = (st.carry + 255 * st.buffer[k + 1]) % 58],
   carry  |-> (st.carry + 255 * st.buffer[k + 1]) \div 58]

\* carry += 256 * buffer[k]; buffer[k] = carry % 58; carry /= 58;
Base58Step(st, k) ==
  [buffer |-> [st.buffer EXCEPT
                 ![k + 1] = (st.carry + 256 * st.buffer[k + 1]) % 58],
   carry  |-> (st.carry + 256 * st.buffer[k + 1]) \div 58]

\* the least e with 2^e >= n: loops of n passes are evaluated by halves
Span(n) == CHOOSE e \in 0..30 : 2 ^ e >= n /\ (e = 0 \/ 2 ^ (e - 1) < n)

\* the passes k = lo + 2^e - 1, ..., lo + 1, lo of the inner loop, in this
\* order, those with k < output_size (evaluated by halves)
RECURSIVE Base58Carry(_, _, _)
Base58Carry(st, lo, e) ==
  IF lo >= Len(st.buffer) THEN st
  ELSE IF e = 0 THEN Base58Step(st, lo)
  ELSE Let(Base58Carry(st, lo + 2 ^ (e - 1), e - 1), LAMBDA upper :
         Base58Carry(upper, lo, e - 1))

\* uint32_t carry = input[i]; for (k = output_size - 1; k >= 0; k--, j++):
\* the passes j = 0 .. output_size - 1 update every digit; the loop leaves
\* after the last of them when carry == 0, and with a carry left it goes on
\* with k below 0 (spin)
Base58Byte(b, byte) ==
  Let(Base58Carry([buffer |-> b.buffer, carry |-> byte],
                  0, Span(Len(b.buffer))), LAMBDA st :
    [buffer |-> st.buffer, spin |-> st.carry # 0])

\* for (size_t i = zeros; i < input_len; i++), the iterations
\* i = lo, ..., lo + 2^e - 1 with i < input_len (evaluated by halves)
RECURSIVE Base58Bytes(_, _, _, _)
Base58Bytes(b, input, lo, e) ==
  IF lo >= Len(input) \/ b.spin THEN b
  ELSE IF e = 0 THEN Base58Byte(b, input[lo + 1])
  ELSE Let(Base58Bytes(b, input, lo, e - 1), LAMBDA first :
         Base58Bytes(first, input, lo + 2 ^ (e - 1), e - 1))

\* mutant of Base58Text: the leading zero digits of the buffer are kept
Base58TextKeepsZeroDigits(zeros, buffer, result_start) ==
  Fill(zeros, "1")
    \o [i \in 1..Len(buffer) |-> alphabet[buffer[i] + 1]]
    \o <<NUL>>

\* output[output_index++] = '1' (zeros times), then alphabet[buffer[i]] for
\* i = result_start .. output_size - 1, then output[output_index] = '\0'
Base58Text(zeros, buffer, result_start) ==
  Fill(zeros, "1")
    \o [i \in 1..(Len(buffer) - result_start) |->
          alphabet[buffer[result_start + i] + 1]]
    \o <<NUL>>

\* base58_encode(output, input, input_len): the characters written to output
\* and the value returned
base58_encode(input0) ==
  Let2(input0, CountZeros(input0, 0), LAMBDA input, zeros :
    Let(Base58Bytes([buffer |-> Zeros(OutputSize(Len(input))),
                     spin |-> FALSE],
                    input, zeros, Span(Len(input) - zeros)), LAMBDA b :
      Let(CountZeros(b.buffer, 0), LAMBDA result_start :
        IF b.spin THEN [spin |-> TRUE, output |-> <<>>, ret |-> 0]
        ELSE [spin |-> FALSE,
              output |-> Base58Text(zeros, b.buffer, result_start),
              ret |-> zeros + (Len(b.buffer) - result_start)])))

\* ------------------------------------------------- Base58 entry point
MaxShort == 3        \* longest input drawn from all sequences over ShortBytes
MaxInput == 82       \* longest input (the extended-key record)

ShortBytes == {0, 1, 57, 58, 255}

RECURSIVE ShortInputs(_)
ShortInputs(n) ==
  IF n = 0 THEN {<<>>}
  ELSE ShortInputs(n - 1)
         \cup {Append(B, b) : B \in {X \in ShortInputs(n - 1) : Len(X) = n - 1},
                              b \in ShortBytes}

\* z zero bytes followed by m bytes that start with a nonzero byte
LongInputs ==
  {Zeros(z) \o DataOf(m, sd) : z \in {0, 1, 5},
                                m \in {0, 33, 37, MaxInput - 5}, sd \in {1, 200}}

\* the largest value of each length: every byte 0xFF
FullInputs == {Fill(n, 255) : n \in 1..MaxInput}

InitBase58 ==
  /\ pc = "call"
  /\ \E B \in ShortInputs(MaxShort) \cup LongInputs \cup FullInputs :
       args = [fn |-> "base58_encode", input |-> B \o <<>>]
  /\ mem = [output |-> <<>>, ret |-> 0]
  /\ InitMain

Base58Call ==
  /\ pc = "call" /\ args.fn = "base58_encode"
  /\ \E r \in {base58_encode(args.input)} :
       /\ pc' = (IF r.spin THEN "spinning" ELSE "done")
       /\ mem' = [output |-> r.output, ret |-> r.ret]
  /\ UNCHANGED <<args, mainVars>>

NextBase58 == Base58Call

SpecBase58 == InitBase58 /\ [][NextBase58]_vars

\* reference: the number of leading zero bytes of B
RefLeadingZeros(B) ==
  CHOOSE z \in 0..Len(B) :
    /\ \A y \in 1..z : B[y] = 0
    /\ z = Len(B) \/ B[z + 1] # 0

\* reference: long division by 58 of the base-256 number v (most significant
\* byte first), the bytes lo .. lo + 2^e - 1 of it; st = [q, r], the quotient
\* bytes and the running remainder
RECURSIVE RefDivide(_, _, _, _)
RefDivide(st, v, lo, e) ==
  IF lo > Len(v) THEN st
  ELSE IF e = 0
  THEN [q |-> Append(st.q, (st.r * 256 + v[lo]) \div 58),
        r |-> (st.r * 256 + v[lo]) % 58]
  ELSE Let(RefDivide(st, v, lo, e - 1), LAMBDA first :
         RefDivide(first, v, lo + 2 ^ (e - 1), e - 1))

\* reference: 2^e more divisions by 58, st = [v, digits], the remainders
\* collected most significant first
RECURSIVE RefRemainders(_, _)
RefRemainders(st, e) ==
  IF e = 0
  THEN Let(RefDivide([q |-> <<>>, r |-> 0], st.v, 1, Span(Len(st.v))),
           LAMBDA d : [v |-> d.q, digits |-> <<d.r>> \o st.digits])
  ELSE Let(RefRemainders(st, e - 1), LAMBDA first :
         RefRemainders(first, e - 1))

\* reference: the base-58 digits of the big-endian integer v, most
\* significant first, without leading zero digit (58^3 > 256^2, so
\* (3 * Len(v) + 1) / 2 digits are enough, and more of them are zero)
RefDigits(v) ==
  Let(RefRemainders([v |-> v, digits |-> <<>>],
                    Span((3 * Len(v) + 1) \div 2)).digits,
      LAMBDA d : SubSeq(d, RefLeadingZeros(d) + 1, Len(d)))

\* reference: '1' for each leading zero byte, then the digits of the rest
RefBase58(B) ==
  Let(RefLeadingZeros(B), LAMBDA Z :
    Let(RefDigits(SubSeq(B, Z + 1, Len(B))), LAMBDA d :
      Fill(Z, "1") \o [i \in 1..Len(d) |-> alphabet[d[i] + 1]] \o <<>>))

\* reference: the value of the digit sequence d in base b
RECURSIVE RefValue(_, _, _)
RefValue(d, n, b) == IF n = 0 THEN 0 ELSE RefValue(d, n - 1, b) * b + d[n]

\* reference: the digit a character stands for
RefDigitOf(c) == CHOOSE d \in 0..57 : alphabet[d + 1] = c

\* reference: for inputs whose value fits the integers (at most 3 bytes),
\* the characters after the Z leading ones are the digits of the value
RefShortValueAgrees(B, text) ==
  Len(B) <= 3 =>
    Let(RefLeadingZeros(B), LAMBDA Z :
      /\ RefValue([i \in 1..(Len(text) - Z) |-> RefDigitOf(text[Z + i])],
                  Len(text) - Z, 58)
           = RefValue(B, Len(B), 256)
      /\ Len(text) > Z => text[Z + 1] # "1")

\* C5: base58_encode writes Z '1' characters, Z the number of leading zero
\* bytes of the input, then the base-58 digits (most significant first, no
\* leading zero digit) of the big-endian integer formed by the remaining
\* bytes, each mapped through the alphabet, then the terminating NUL, and
\* returns the number of characters written.
C5_Base58Digits ==
  (args.fn = "base58_encode" /\ pc # "call") =>
    /\ pc = "done"
    /\ \E text \in {RefBase58(args.input)} :
         /\ mem.output = text \o <<NUL>>
         /\ mem.ret = Len(text)
         /\ RefShortValueAgrees(args.input, text)

C5_Witness ==
  /\ args.fn = "base58_encode" /\ pc = "done"
  /\ Len(args.input) = MaxInput /\ args.input[1] = 0 /\ args.input[6] # 0
  /\ mem.ret > 100

\* the number of leading '1' characters of a text
LeadingOnes(text) ==
  CHOOSE n \in 0..Len(text) :
    /\ \A y \in 1..n : text[y] = "1"
    /\ n = Len(text) \/ text[n + 1] # "1"

\* C6: the number of leading '1' characters of the output of base58_encode
\* equals the number of leading zero bytes of the input; an all-zero N-byte
\* input yields exactly N characters, all '1'.
C6_LeadingOnes ==
  (args.fn = "base58_encode" /\ pc # "call") =>
    /\ pc = "done"
    /\ LeadingOnes(SubSeq(mem.output, 1, mem.ret))
         = RefLeadingZeros(args.input)
    /\ (\A y \in 1..Len(args.input) : args.input[y] = 0) =>
         /\ mem.ret = Len(args.input)
         /\ mem.output = Fill(Len(args.input), "1") \o <<NUL>>

C6_Witness ==
  /\ args.fn = "base58_encode" /\ pc = "done"
  /\ Len(args.input) = MaxShort
  /\ \A y \in 1..Len(args.input) : args.input[y] = 0
  /\ mem.ret = MaxShort /\ mem.output[MaxShort] = "1"

\* ------------------------------------------------------------------ BIP-32
BIP39_SEED_LENGTH == 64
PRIVATE_KEY_LENGTH == 32
CHAIN_CODE_LENGTH == 32
WIF_VERSION_BYTE == 128

SUCCESS == 0
ERROR_INVALID_INPUT == -1
ERROR_INVALID_LENGTH == -2
ERROR_INTERNAL == -3

\* mutant of BIP32_KEY: "bitcoin seed"
BIP32_KEY_LowerCase == <<98, 105, 116, 99, 111, 105, 110, 32, 115, 101, 101, 100>>

\* #define BIP32_KEY "Bitcoin seed", strlen(BIP32_KEY) bytes of it
BIP32_KEY == <<66, 105, 116, 99, 111, 105, 110, 32, 115, 101, 101, 100>>

\* mutant of derive_bip32_master_key: the length of the seed is not checked
DeriveWithoutLengthCheck(seed, seed_len, private_key_out, chain_code_out) ==
  Let(hmac_sha512(BIP32_KEY, Bytes(seed, 0, seed_len)), LAMBDA master_key :
    [ub |-> master_key.ub, ret |-> SUCCESS, hmacs |-> 1,
     private_key |->
       IF master_key.ub THEN private_key_out
       ELSE Memcpy(private_key_out, 0, master_key.digest, PRIVATE_KEY_LENGTH),
     chain_code |->
       IF master_key.ub THEN chain_code_out
       ELSE Memcpy(chain_code_out, 0,
                   Bytes(master_key.digest, PRIVATE_KEY_LENGTH,
                         CHAIN_CODE_LENGTH), CHAIN_CODE_LENGTH)])

\* derive_bip32_master_key(seed, seed_len, private_key_out, chain_code_out):
\* the value returned, the two output buffers and the number of hmac_sha512
\* calls made (hmacs)
derive_bip32_master_key(seed, seed_len, private_key_out, chain_code_out) ==
  IF seed = NULL \/ private_key_out = NULL \/ chain_code_out = NULL
  THEN [ub |-> FALSE, ret |-> ERROR_INVALID_INPUT, hmacs |-> 0,
        private_key |-> private_key_out, chain_code |-> chain_code_out]
  ELSE IF seed_len # BIP39_SEED_LENGTH
  THEN [ub |-> FALSE, ret |-> ERROR_INVALID_LENGTH, hmacs |-> 0,
        private_key |-> private_key_out, chain_code |-> chain_code_out]
  ELSE Let(hmac_sha512(BIP32_KEY, Bytes(seed, 0, seed_len)),
           LAMBDA master_key :
         IF master_key.ub
         THEN [ub |-> TRUE, ret |-> SUCCESS, hmacs |-> 1,
               private_key |-> private_key_out, chain_code |-> chain_code_out]
         ELSE [ub |-> FALSE, ret |-> SUCCESS, hmacs |-> 1,
               private_key |->
                 Memcpy(private_key_out, 0, master_key.digest,
                        PRIVATE_KEY_LENGTH),
               chain_code |->
                 Memcpy(chain_code_out, 0,
                        Bytes(master_key.digest, PRIVATE_KEY_LENGTH,
                              CHAIN_CODE_LENGTH),
                        CHAIN_CODE_LENGTH)])

\* sha256(data, n, checksum); sha256(checksum, 32, checksum);
DoubleSha256(data, n) == sha256(sha256(Bytes(data, 0, n)).digest).digest

\* a text and its '\0' stored from the start of a caller's buffer; ub when
\* the buffer is too short for them
StoreText(buf, text) ==
  IF Len(text) > Len(buf) THEN [ub |-> TRUE, buf |-> buf]
  ELSE [ub |-> FALSE, buf |-> Memcpy(buf, 0, text, Len(text))]

\* mutant of WifRecord: the checksum is taken over all 37 bytes of the array
WifRecordChecksumOverArray(private_key) ==
  Let(Memcpy(<<WIF_VERSION_BYTE>> \o Zeros(PRIVATE_KEY_LENGTH + 4),
             1, private_key, PRIVATE_KEY_LENGTH), LAMBDA versioned_key :
    Memcpy(versioned_key, PRIVATE_KEY_LENGTH + 1,
           DoubleSha256(versioned_key, PRIVATE_KEY_LENGTH + 1 + 4), 4))

\* versioned_key of private_key_to_wif before it is encoded
WifRecord(private_key) ==
  Let(Memcpy(<<WIF_VERSION_BYTE>> \o Fill(PRIVATE_KEY_LENGTH + 4, Uninit),
             1, private_key, PRIVATE_KEY_LENGTH), LAMBDA versioned_key :
    Memcpy(versioned_key, PRIVATE_KEY_LENGTH + 1,
           DoubleSha256(versioned_key, PRIVATE_KEY_LENGTH + 1), 4))

\* what private_key_to_wif and generate_xprv do with their record: encode it
\* into the caller's buffer, if (len == 0) return ERROR_INTERNAL;
\* out[len] = '\0'; return SUCCESS;
EncodeRecord(raw0, out) ==
  Let(raw0, LAMBDA raw :
    Let(base58_encode(raw), LAMBDA enc :
      IF enc.spin
      THEN [ub |-> FALSE, spin |-> TRUE, ret |-> SUCCESS, raw |-> raw,
            out |-> out]
      ELSE Let(StoreText(out, enc.output), LAMBDA st :
             [ub |-> st.ub, spin |-> FALSE,
              ret |-> IF enc.ret = 0 THEN ERROR_INTERNAL ELSE SUCCESS,
              raw |-> raw,
              out |-> IF st.ub \/ enc.ret = 0 THEN st.buf
                      ELSE [st.buf EXCEPT ![enc.ret + 1] = NUL]])))

\* private_key_to_wif(private_key, wif_key)
private_key_to_wif(private_key, wif_key) ==
  IF private_key = NULL \/ wif_key = NULL
  THEN [ub |-> FALSE, spin |-> FALSE, ret |-> ERROR_INVALID_INPUT,
        raw |-> <<>>, out |-> wif_key]
  ELSE EncodeRecord(WifRecord(private_key), wif_key)

\* mutant of XprvFields: the private key is stored before the chain code
XprvFieldsKeyFirst(private_key, chain_code) ==
  <<4, 136, 173, 228>> \o Zeros(9) \o <<0>> \o private_key \o chain_code
    \o Fill(4, Uninit)

\* mutant of XprvFields: the version bytes are ff ff ff ff
XprvFieldsVersionAllOnes(private_key, chain_code) ==
  <<255, 255, 255, 255>> \o Zeros(9) \o chain_code \o <<0>> \o private_key
    \o Fill(4, Uninit)

\* xprv_raw of generate_xprv before its checksum is computed
XprvFields(private_key, chain_code) ==
  Memcpy(Memset(Memcpy(Memset(Memcpy(Fill(82, Uninit),
                                     0, <<4, 136, 173, 228>>, 4),
                              4, 0, 9),
                       13, chain_code, 32),
                45, 0, 1),
         46, private_key, 32)

\* generate_xprv(private_key, chain_code, xprv)
generate_xprv(private_key, chain_code, xprv) ==
  IF private_key = NULL \/ chain_code = NULL \/ xprv = NULL
  THEN [ub |-> FALSE, spin |-> FALSE, ret |-> ERROR_INVALID_INPUT,
        raw |-> <<>>, out |-> xprv]
  ELSE Let(XprvFields(private_key, chain_code), LAMBDA xprv_raw :
         EncodeRecord(Memcpy(xprv_raw, 78, DoubleSha256(xprv_raw, 78), 4),
                      xprv))

\* ---------------------------------------------------- BIP-32 entry points
MaxSeed == 15        \* seeds 0..MaxSeed of each length
MaxKey == 5          \* private keys and chain codes 0..MaxKey

SeedLens == {0, 32, BIP39_SEED_LENGTH - 1, BIP39_SEED_LENGTH,
             BIP39_SEED_LENGTH + 1, 2 * BIP39_SEED_LENGTH}

\* 32-byte keys: some start with zero bytes, one is all zero, one all 0xFF
Keys ==
  {DataOf(32, sd) : sd \in 0..MaxKey}
    \cup {Zeros(3) \o DataOf(29, sd) : sd \in 0..1}
    \cup {Zeros(32), Fill(32, 255)}

ChainCodes ==
  {DataOf(32, 100 + sd) : sd \in 0..1} \cup {Zeros(32), Fill(32, 255)}

InitBip32 ==
  /\ pc = "call"
  /\ \/ /\ \E sd \in 0..MaxSeed, n \in SeedLens :
             args = [fn |-> "derive_bip32_master_key",
                     seed |-> DataOf(n, sd) \o <<>>, seed_len |-> n]
        /\ mem = [private_key |-> Fill(PRIVATE_KEY_LENGTH, Uninit),
                  chain_code |-> Fill(CHAIN_CODE_LENGTH, Uninit)]
     \/ /\ \E k \in Keys, c \in ChainCodes :
             args = [fn |-> "generate_xprv", private_key |-> k \o <<>>,
                     chain_code |-> c \o <<>>]
        /\ mem = [xprv |-> Fill(112, Uninit)]
     \/ /\ \E k \in Keys :
             args = [fn |-> "private_key_to_wif", private_key |-> k \o <<>>]
        /\ mem = [wif_key |-> Fill(53, Uninit)]
  /\ InitMain

DeriveCall ==
  /\ pc = "call" /\ args.fn = "derive_bip32_master_key"
  /\ \E r \in {derive_bip32_master_key(args.seed, args.seed_len,
                                       mem.private_key, mem.chain_code)} :
       /\ pc' \in (IF r.ub THEN AfterUB ELSE {"done"})
       /\ mem' = [private_key |-> r.private_key, chain_code |-> r.chain_code,
                  ret |-> r.ret, hmacs |-> r.hmacs]
  /\ UNCHANGED <<args, mainVars>>

XprvCall ==
  /\ pc = "call" /\ args.fn = "generate_xprv"
  /\ \E r \in {generate_xprv(args.private_key, args.chain_code, mem.xprv)} :
       /\ pc' \in (IF r.ub THEN AfterUB
                   ELSE IF r.spin THEN {"spinning"} ELSE {"done"})
       /\ mem' = [xprv |-> r.out, xprv_raw |-> r.raw, ret |-> r.ret]
  /\ UNCHANGED <<args, mainVars>>

WifCall ==
  /\ pc = "call" /\ args.fn = "private_key_to_wif"
  /\ \E r \in {private_key_to_wif(args.private_key, mem.wif_key)} :
       /\ pc' \in (IF r.ub THEN AfterUB
                   ELSE IF r.spin THEN {"spinning"} ELSE {"done"})
       /\ mem' = [wif_key |-> r.out, versioned_key |-> r.raw, ret |-> r.ret]
  /\ UNCHANGED <<args, mainVars>>

NextBip32 == DeriveCall \/ XprvCall \/ WifCall

SpecBip32 == InitBip32 /\ [][NextBip32]_vars

\* C7: for a 64-byte seed derive_bip32_master_key returns SUCCESS with
\* private_key = bytes 0..31 and chain_code = bytes 32..63 of
\* hmac_sha512(key = the 12 bytes "Bitcoin seed", data = seed).
C7_MasterKeyHalves ==
  (args.fn = "derive_bip32_master_key" /\ pc # "call"
     /\ args.seed_len = 64) =>
    /\ pc = "done"
    /\ mem.ret = SUCCESS
    /\ \E h \in {hmac_sha512(<<66, 105, 116, 99, 111, 105, 110, 32,
                               115, 101, 101, 100>>, args.seed).digest} :
         /\ Len(h) = 64
         /\ mem.private_key = SubSeq(h, 1, 32)
         /\ mem.chain_code = SubSeq(h, 33, 64)

C7_Witness ==
  /\ args.fn = "derive_bip32_master_key" /\ pc = "done"
  /\ args.seed_len = 64 /\ Len(args.seed) = 64
  /\ mem.ret = SUCCESS /\ Len(mem.private_key) = 32
  /\ mem.private_key[1] # Uninit /\ mem.chain_code[32] # Uninit

\* reference: the first 4 bytes of sha256(sha256(payload))
RefChecksum(payload) == SubSeq(sha256(sha256(payload).digest).digest, 1, 4)

\* C8: generate_xprv base-58 encodes a record of exactly 82 bytes:
\* 04 88 AD E4, nine zero bytes, the chain code at 13..44, 0x00 at 45, the
\* private key at 46..77 and at 78..81 the first 4 bytes of
\* sha256(sha256(bytes 0..77)).
C8_XprvRecord ==
  (args.fn = "generate_xprv" /\ pc # "call") =>
    /\ pc = "done"
    /\ mem.ret = SUCCESS
    /\ Len(mem.xprv_raw) = 82
    /\ SubSeq(mem.xprv_raw, 1, 78)
         = <<4, 136, 173, 228>> \o Zeros(9) \o args.chain_code \o <<0>>
             \o args.private_key
    /\ SubSeq(mem.xprv_raw, 79, 82) = RefChecksum(SubSeq(mem.xprv_raw, 1, 78))
    /\ \E text \in {RefBase58(mem.xprv_raw)} :
         SubSeq(mem.xprv, 1, Len(text) + 1) = text \o <<NUL>>

C8_Witness ==
  /\ args.fn = "generate_xprv" /\ pc = "done"
  /\ args.private_key[1] = 0 /\ args.private_key[4] # 0
  /\ mem.xprv[1] = "x" /\ mem.xprv[112] = NUL

MAX_FILES == 100

\* a C string is the sequence of its characters; '\0' follows the last one
CharAt(str, k) == IF k < Len(str) THEN str[k + 1] ELSE NUL

Digits == <<"0", "1", "2", "3", "4", "5", "6", "7", "8", "9">>

isdigit(c) == \E d \in 1..10 : Digits[d] = c

DigitValue(c) == (CHOOSE d \in 1..10 : Digits[d] = c) - 1

\* the decimal digits of str from C index k on: the index after them and
\* their value
RECURSIVE ReadDigits(_, _, _)
ReadDigits(str, k, acc) ==
  IF isdigit(CharAt(str, k))
  THEN ReadDigits(str, k + 1, acc * 10 + DigitValue(CharAt(str, k)))
  ELSE [next |-> k, value |-> acc]

\* the integer at the start of str as strtol and scanf("%d") read it: blanks,
\* a sign, digits; ok when there was a digit, rest is what follows the digits
ParseInt(str0) ==
  Let(str0, LAMBDA str :
    Let(CHOOSE b \in 0..Len(str) :
          /\ \A k \in 0..(b - 1) : CharAt(str, k) = " "
          /\ CharAt(str, b) # " ", LAMBDA b :
      Let(ReadDigits(str, IF CharAt(str, b) \in {"+", "-"} THEN b + 1 ELSE b,
                     0), LAMBDA r :
        [ok |-> r.next > 0 /\ isdigit(CharAt(str, r.next - 1)),
         value |-> IF CharAt(str, b) = "-" THEN 0 - r.value ELSE r.value,
         rest |-> SubSeq(str, r.next + 1, Len(str))])))

atoi(str) == Let(ParseInt(str), LAMBDA p : IF p.ok THEN p.value ELSE 0)

\* scanf("%d", &v) on the pending input (a sequence of blank-separated
\* tokens): the return value, the value stored (if any) and the input left
Scanf(stdin0) ==
  Let(stdin0, LAMBDA stdin :
    IF stdin = <<>> THEN [ret |-> -1, value |-> 0, stdin |-> stdin]
    ELSE Let(ParseInt(Head(stdin)), LAMBDA p :
           IF ~p.ok THEN [ret |-> 0, value |-> 0, stdin |-> stdin]
           ELSE [ret |-> 1, value |-> p.value,
                 stdin |-> IF p.rest = <<>> THEN Tail(stdin)
                           ELSE <<p.rest>> \o Tail(stdin)]))

\* main hands &num, a size_t, to a parameter of type int *: the int written
\* replaces the low four bytes of num, which is below 2^32 (little-endian);
\* the numbers of the model are not negative
StoreInt(old, v) == v

is_valid_number(n) == n >= 128 /\ n <= 256 /\ n % 32 = 0

\* dir: whether opendir("./wordlists") finds it, and its entries in readdir
\* order
get_wordlist_files(dir0, max_files) ==
  Let(dir0, LAMBDA dir :
    IF ~dir.exists THEN [count |-> -1, files |-> <<>>]
    ELSE Let(SelectSeq(dir.entries, LAMBDA entry : entry.d_type = "DT_REG"),
             LAMBDA regular :
           Let(IF Len(regular) < max_files THEN Len(regular) ELSE max_files,
               LAMBDA count :
             [count |-> count,
              files |-> [k \in 1..count |-> regular[k].d_name]])))

\* the index of the first file called name, -1 when there is none
FindFile(files, name) ==
  IF \E i \in 1..Len(files) : files[i] = name
  THEN (CHOOSE i \in 1..Len(files) :
          files[i] = name /\ \A j \in 1..(i - 1) : files[j] # name) - 1
  ELSE -1

\* ret, and *num_out and *file_index_out after the call
process_command_line(argv, num_out, file_index_out, files, file_count) ==
  IF Len(argv) < 3 THEN
    [ret |-> 0, num |-> num_out, file_index |-> file_index_out]
  ELSE IF ~is_valid_number(atoi(argv[2])) THEN
    [ret |-> -1, num |-> num_out, file_index |-> file_index_out]
  ELSE IF isdigit(CharAt(argv[3], 0)) THEN
    IF atoi(argv[3]) < 1 \/ atoi(argv[3]) > file_count
    THEN [ret |-> -1, num |-> StoreInt(num_out, atoi(argv[2])),
          file_index |-> file_index_out]
    ELSE [ret |-> 1, num |-> StoreInt(num_out, atoi(argv[2])),
          file_index |-> atoi(argv[3]) - 1]
  ELSE IF FindFile(files, argv[3]) < 0
    THEN [ret |-> -1, num |-> StoreInt(num_out, atoi(argv[2])),
          file_index |-> file_index_out]
    ELSE [ret |-> 1, num |-> StoreInt(num_out, atoi(argv[2])),
          file_index |-> FindFile(files, argv[3])]

\* ret, and *num_out and *file_index_out after the call
process_interactive_mode(stdin, num_out, file_index_out, file_count) ==
  Let(Scanf(stdin), LAMBDA first :
    IF first.ret # 1
    THEN [ret |-> -1, num |-> num_out, file_index |-> file_index_out]
    ELSE IF ~is_valid_number(first.value)
    THEN [ret |-> -1, num |-> StoreInt(num_out, first.value),
          file_index |-> file_index_out]
    ELSE Let(Scanf(first.stdin), LAMBDA choice :
           IF choice.ret # 1 \/ choice.value < 1 \/ choice.value > file_count
           THEN [ret |-> -1, num |-> StoreInt(num_out, first.value),
                 file_index |-> file_index_out]
           ELSE [ret |-> 1, num |-> StoreInt(num_out, first.value),
                 file_index |-> choice.value - 1]))

\* "Validate selected index", "Build full path": ret, *num_out, *filename_out
SelectFile(sel, files, file_count, filename_out) ==
  IF sel.file_index < 0 \/ sel.file_index >= file_count
  THEN [ret |-> -1, num |-> sel.num, filename |-> filename_out]
  ELSE [ret |-> 1, num |-> sel.num,
        filename |-> <<"./wordlists/", files[sel.file_index + 1]>>]

\* ret, *num_out and *filename_out after the call
receive_input(argv, stdin, dir, num_out, filename_out) ==
  Let(get_wordlist_files(dir, MAX_FILES), LAMBDA g :
    IF g.count <= 0
    THEN [ret |-> -1, num |-> num_out, filename |-> filename_out]
    ELSE Let(process_command_line(argv, num_out, -1, g.files, g.count),
             LAMBDA cli :
           IF cli.ret < 0
           THEN [ret |-> -1, num |-> cli.num, filename |-> filename_out]
           ELSE IF cli.ret # 0
           THEN SelectFile(cli, g.files, g.count, filename_out)
           ELSE Let(process_interactive_mode(stdin, num_out, -1, g.count),
                    LAMBDA inter :
                  IF inter.ret <= 0
                  THEN [ret |-> inter.ret, num |-> inter.num,
                        filename |-> filename_out]
                  ELSE SelectFile(inter, g.files, g.count, filename_out))))

\* ---------------------------------------------------- mnemonics: pipeline
MNEMONIC_MAX_LENGTH == 16

\* size_t checksum_bits = *length / 32 (the number of hash bytes appended)
ChecksumBytes(length) == length \div 32

\* entropy_checksum_and_concat(&entropy, &num): the buffer and its length
\* after the call; ub when concat_arrays copies more than the 32 bytes of hash
entropy_checksum_and_concat(buffer0, length) ==
  Let(buffer0, LAMBDA buffer :
    IF buffer = NULL \/ length = 0
    THEN [ub |-> FALSE, buffer |-> buffer, length |-> length]
    ELSE Let(sha256(buffer).digest, LAMBDA hash :
           IF ChecksumBytes(length) > Len(hash)
           THEN [ub |-> TRUE, buffer |-> buffer, length |-> length]
           ELSE [ub |-> FALSE,
                 buffer |-> buffer \o SubSeq(hash, 1, ChecksumBytes(length)),
                 length |-> length + ChecksumBytes(length)]))

\* a wordlist file is its lines and whether the last of them ends in '\n'
LineText(file, i) ==
  IF i < Len(file.lines) \/ file.eol THEN file.lines[i] \o <<"\n">>
  ELSE file.lines[i]

\* the number of '\n' that the fgetc loop counts
CountNewlines(file) ==
  IF file.eol \/ file.lines = <<>> THEN Len(file.lines)
  ELSE Len(file.lines) - 1

\* buffer[strcspn(buffer, "\n")] = '\0'
StripNewline(buffer) ==
  SubSeq(buffer, 1,
         (CHOOSE k \in 1..(Len(buffer) + 1) :
            /\ \A j \in 1..(k - 1) : buffer[j] # "\n"
            /\ (k = Len(buffer) + 1 \/ buffer[k] = "\n")) - 1)

\* the strings that successive fgets(buffer, 16, file) calls make of one
\* line: at most 15 characters each, the last one ends with the line
Pieces(text) ==
  [k \in 1..((Len(text) + MNEMONIC_MAX_LENGTH - 2)
               \div (MNEMONIC_MAX_LENGTH - 1)) |->
     StripNewline(SubSeq(text, (MNEMONIC_MAX_LENGTH - 1) * (k - 1) + 1,
       IF (MNEMONIC_MAX_LENGTH - 1) * k < Len(text)
       THEN (MNEMONIC_MAX_LENGTH - 1) * k ELSE Len(text)))]

\* the strings stored by the while (fgets(..)) loop over the 2^e lines from
\* line lo on
RECURSIVE ReadLines(_, _, _)
ReadLines(file, lo, e) ==
  IF lo > Len(file.lines) THEN <<>>
  ELSE IF e = 0 THEN Pieces(LineText(file, lo))
  ELSE ReadLines(file, lo, e - 1) \o ReadLines(file, lo + 2 ^ (e - 1), e - 1)

\* read_mnemonics on the content of the file: the array returned and
\* *num_lines; ub when the loop stores more strings than malloc(count *
\* sizeof(char *)) has room for
read_mnemonics(file0) ==
  Let(file0, LAMBDA file :
    Let(ReadLines(file, 1, Span(Len(file.lines))), LAMBDA stored :
      IF Len(stored) > CountNewlines(file)
      THEN [ub |-> TRUE, lines |-> NULL, num_lines |-> 0]
      ELSE [ub |-> FALSE, lines |-> stored,
            num_lines |-> CountNewlines(file)]))

\* value = (value << 8) | chunk[i] on a uint64_t, kept as its 8 bytes
RECURSIVE ShiftIn(_, _, _)
ShiftIn(value, chunk, i) ==
  IF i >= 11 THEN value
  ELSE ShiftIn(Tail(value) \o <<chunk[i + 1]>>, chunk, i + 1)

\* value % m for the bytes value[1..k], most significant first
RECURSIVE ModBytes(_, _, _)
ModBytes(value, k, m) ==
  IF k = 0 THEN 0 ELSE (ModBytes(value, k - 1, m) * 256 + value[k]) % m

entropy_to_index(chunk, mnemonics_count) ==
  Let(ShiftIn(Zeros(8), chunk, 0), LAMBDA value :
    ModBytes(value, 8, mnemonics_count))

\* mutant of NumWords: one word for every 12 bytes
NumWordsPerTwelveBytes(num_bytes) == num_bytes \div 12

\* *num_words = num_bytes / 11
NumWords(num_bytes) == num_bytes \div 11

\* generate_mnemonics(entropy, num_bytes, filename, &num_words) with the
\* content of the file of that name: the array returned and *num_words
generate_mnemonics(entropy0, num_bytes, filename_, file, num_words0) ==
  Let(entropy0, LAMBDA entropy_ :
    IF entropy_ = NULL \/ filename_ = NULL \/ num_bytes % 11 # 0
    THEN [ub |-> FALSE, words |-> NULL, num_words |-> num_words0]
    ELSE Let(read_mnemonics(file), LAMBDA mnemonics :
           IF mnemonics.ub
           THEN [ub |-> TRUE, words |-> NULL, num_words |-> num_words0]
           ELSE IF mnemonics.lines = NULL \/ mnemonics.num_lines = 0
           THEN [ub |-> FALSE, words |-> NULL, num_words |-> num_words0]
           ELSE [ub |-> FALSE,
                 words |->
                   SubSeq([i \in 1..NumWords(num_bytes) |->
                     mnemonics.lines[
                       entropy_to_index(Bytes(entropy_, (i - 1) * 11, 11),
                                        mnemonics.num_lines) + 1]],
                     1, NumWords(num_bytes)),
                 num_words |-> NumWords(num_bytes)]))

\* print_mnemonics(words, num_words, words_per_line): the lines printed
print_mnemonics(words_, num_words_, words_per_line) ==
  IF words_ = NULL \/ num_words_ = 0 THEN <<>>
  ELSE [l \in 1..((num_words_ + words_per_line - 1) \div words_per_line) |->
         SubSeq(words_, words_per_line * (l - 1) + 1,
                IF words_per_line * l < num_words_
                THEN words_per_line * l ELSE num_words_)]

\* ------------------------------------------------- mnemonics: environment
MaxRng == 1          \* random streams 0..MaxRng

Letters == <<"a", "b", "c", "d", "e", "f", "g", "h">>

\* word number i of the 2048-word list
Word(i) ==
  <<Letters[((i \div 512) % 8) + 1], Letters[((i \div 64) % 8) + 1],
    Letters[((i \div 8) % 8) + 1], Letters[(i % 8) + 1]>>

\* the names of the files of ./wordlists
EN == <<"e", "n">>
FEW == <<"f", "e", "w">>
RAW == <<"r", "a", "w">>
LONG == <<"l", "o", "n", "g">>
NIL == <<"n", "i", "l">>

\* their content: 2048 words; 3 words; 3 words without a final newline; a
\* list with a line of 15 characters; an empty file
WordlistFile(name) ==
  CASE name = EN ->
         [lines |-> SubSeq([i \in 1..2048 |-> Word(i - 1)], 1, 2048),
          eol |-> TRUE]
    [] name = FEW -> [lines |-> <<Word(1), Word(2), Word(3)>>, eol |-> TRUE]
    [] name = RAW -> [lines |-> <<Word(1), Word(2), Word(3)>>, eol |-> FALSE]
    [] name = LONG ->
         [lines |-> <<Word(1), Word(2) \o Word(3) \o Word(4) \o Word(5)
                                \o <<"a", "b", "c">>, Word(6)>>,
          eol |-> TRUE]
    [] OTHER -> [lines |-> <<>>, eol |-> TRUE]

Regular(name) == [d_name |-> name, d_type |-> "DT_REG"]

\* ./wordlists: missing, holding one list, holding five
Dirs ==
  {[exists |-> FALSE, entries |-> <<>>],
   [exists |-> TRUE,
    entries |-> <<[d_name |-> <<".">>, d_type |-> "DT_DIR"], Regular(EN)>>],
   [exists |-> TRUE,
    entries |-> <<Regular(FEW), Regular(EN), Regular(RAW), Regular(LONG),
                  Regular(NIL)>>]}

\* texts given where a number is expected
Numbers ==
  {<<"1", "2", "8">>, <<"1", "6", "0">>, <<"1", "9", "2">>, <<"2", "2", "4">>,
   <<"2", "5", "6">>, <<"1", "0", "0">>, <<"2", "8", "8">>, <<"9", "6">>,
   <<"x">>, <<"2", "5", "6", "x">>}

\* texts given where a wordlist is chosen
Selectors ==
  {<<"1">>, <<"2">>, <<"3">>, <<"4">>, <<"5">>, <<"9">>, <<"0">>, EN,
   <<"z">>, <<>>}

Program == <<"m">>

\* command lines with both arguments, and the inputs typed without them
Runs ==
  {[argv |-> <<Program, n, s>>, stdin |-> <<>>] : n \in Numbers, s \in Selectors}
    \cup {[argv |-> a, stdin |-> i] :
            a \in {<<Program>>, <<Program, <<"1", "2", "8">>>>},
            i \in {<<>>} \cup {<<n>> : n \in Numbers}
                    \cup {<<n, s>> : n \in Numbers,
                            s \in {<<"1">>, <<"2">>, <<"9">>, <<"z">>}}}

\* what the system does: the random stream read, or the call that fails
Systems ==
  {[fault |-> "none", seed |-> sd] : sd \in 0..MaxRng}
    \cup {[fault |-> "getrandom", seed |-> 0], [fault |-> "realloc", seed |-> 0]}

InitMnemonic ==
  /\ pc = "main"
  /\ \E run \in Runs, dir \in Dirs, sys \in Systems :
       args = [argv |-> run.argv, stdin |-> run.stdin, dir |-> dir,
               fault |-> sys.fault, seed |-> sys.seed]
  /\ mem = [result |-> 0, asked |-> 0, stdout |-> <<>>]
  /\ InitMain

\* int result = receive_input(argc, argv, &num, &filename);
\* asked keeps the number stored in num
ReceiveInput ==
  /\ pc = "main"
  /\ \E r \in {receive_input(args.argv, args.stdin, args.dir, num,
                             filename)} :
       /\ num' = r.num
       /\ filename' = r.filename
       /\ mem' = [mem EXCEPT !.result = r.ret, !.asked = r.num]
  /\ pc' = "generate_entropy"
  /\ UNCHANGED <<args, entropy, num_words, words>>

\* entropy = malloc(num); generate_entropy(entropy, num);
\* malloc(0) returns NULL or an empty object
GenerateEntropy ==
  /\ pc = "generate_entropy"
  /\ IF args.fault = "getrandom"
     THEN pc' = "exited" /\ UNCHANGED entropy
     ELSE /\ pc' = "checksum"
          /\ entropy' \in (IF num = 0 THEN {NULL, <<>>}
                           ELSE {DataOf(num, 41 * args.seed + 7) \o <<>>})
  /\ UNCHANGED <<args, mem, num, filename, num_words, words>>

\* entropy_checksum_and_concat(&entropy, &num);
EntropyChecksumAndConcat ==
  /\ pc = "checksum"
  /\ \E r \in {entropy_checksum_and_concat(entropy, num)} :
       IF r.ub THEN pc' \in AfterUB /\ UNCHANGED <<entropy, num>>
       ELSE IF args.fault = "realloc" /\ entropy # NULL /\ num # 0
       THEN pc' = "exited" /\ UNCHANGED <<entropy, num>>
       ELSE pc' = "mnemonics" /\ entropy' = r.buffer /\ num' = r.length
  /\ UNCHANGED <<args, mem, filename, num_words, words>>

\* char **words = generate_mnemonics(entropy, num, filename, &num_words);
GenerateMnemonics ==
  /\ pc = "mnemonics"
  /\ \E r \in {generate_mnemonics(entropy, num, filename,
                 IF filename = NULL THEN WordlistFile(NIL)
                 ELSE WordlistFile(filename[2]), num_words)} :
       IF r.ub THEN pc' \in AfterUB /\ UNCHANGED <<num_words, words>>
       ELSE pc' = "print" /\ num_words' = r.num_words /\ words' = r.words
  /\ UNCHANGED <<args, mem, num, filename, entropy>>

\* print_mnemonics(words, num_words, 4); free_words(words, num_words);
\* return 0;
PrintAndReturn ==
  /\ pc = "print"
  /\ mem' = [mem EXCEPT !.stdout = print_mnemonics(words, num_words, 4)]
  /\ pc' = "done"
  /\ UNCHANGED <<args, mainVars>>

NextMnemonic ==
  \/ ReceiveInput
  \/ GenerateEntropy
  \/ EntropyChecksumAndConcat
  \/ GenerateMnemonics
  \/ PrintAndReturn

SpecMnemonic == InitMnemonic /\ [][NextMnemonic]_vars

\* the number of words BIP-39 gives for an entropy size
WordsFor(size) ==
  CASE size = 128 -> 12 [] size = 160 -> 15 [] size = 192 -> 18
    [] size = 224 -> 21 [] size = 256 -> 24

\* C10: a run of the mnemonic program that was given one of the sizes 128,
\* 160, 192, 224, 256 and got words from generate_mnemonics has exactly 12,
\* 15, 18, 21, 24 of them, in num_words, in the array and on the output
\* (four to a line); with accepted input and a well-formed wordlist that is
\* not empty generate_mnemonics does return words.
C10_WordCounts ==
  /\ (pc \in {"print", "done"} /\ mem.result = 1
        /\ filename[2] \in {EN, FEW}) => words # NULL
  /\ (pc \in {"print", "done"} /\ words # NULL
        /\ mem.asked \in {128, 160, 192, 224, 256}) =>
       /\ num_words = WordsFor(mem.asked)
       /\ Len(words) = WordsFor(mem.asked)
       /\ pc = "done" =>
            /\ Len(mem.stdout) = (WordsFor(mem.asked) + 3) \div 4
            /\ \A l \in 1..Len(mem.stdout) :
                 Len(mem.stdout[l]) = IF 4 * l <= WordsFor(mem.asked) THEN 4
                                      ELSE WordsFor(mem.asked) - 4 * (l - 1)

C10_Witness ==
  /\ pc = "done" /\ mem.asked = 256 /\ mem.result = 1
  /\ filename = <<"./wordlists/", EN>>
  /\ Len(entropy) = 264 /\ num_words = 24 /\ Len(words) = 24
  /\ \E i \in 0..2047 : words[24] = Word(i)
  /\ Len(mem.stdout) = 6

\* ------------------------------------- entropy_checksum_and_concat alone
MaxStream == 4       \* random streams 0..MaxStream of each length

\* entropy lengths in bytes: the BIP-39 sizes (128..256 bits), the sizes main
\* passes (128..256 bytes) and some others
EntropyLens == {0, 8, 16, 20, 24, 28, 31, 32, 33, 64, 100, 128, 160, 192,
                224, 256}

InitChecksum ==
  /\ pc = "call"
  /\ \E n \in EntropyLens, sd \in 0..MaxStream :
       args = [fn |-> "entropy_checksum_and_concat",
               buffer |-> DataOf(n, 29 * sd + 3) \o <<>>, length |-> n]
  /\ mem = [buffer |-> <<>>, length |-> 0]
  /\ InitMain

ChecksumCall ==
  /\ pc = "call" /\ args.fn = "entropy_checksum_and_concat"
  /\ \E r \in {entropy_checksum_and_concat(args.buffer, args.length)} :
       /\ pc' \in (IF r.ub THEN AfterUB ELSE {"done"})
       /\ mem' = [buffer |-> r.buffer, length |-> r.length]
  /\ UNCHANGED <<args, mainVars>>

NextChecksum == ChecksumCall

SpecChecksum == InitChecksum /\ [][NextChecksum]_vars

\* bit k (0 = most significant bit of the first byte) of a byte sequence
BitOf(bytes, k) == Bit(bytes[(k \div 8) + 1], 7 - (k % 8))

\* C11: after entropy_checksum_and_concat on an entropy of len_bits bits (at
\* least 128) the first bytes of the buffer are the entropy, unchanged, and
\* what follows holds the leading len_bits/32 bits of sha256(entropy): as
\* many bytes as these bits need, starting with these bits.
C11_ChecksumBits ==
  (args.fn = "entropy_checksum_and_concat" /\ pc = "done"
     /\ args.length >= 16) =>
    \E cs \in {(8 * args.length) \div 32} :
      /\ SubSeq(mem.buffer, 1, args.length) = args.buffer
      /\ mem.length = Len(mem.buffer)
      /\ Len(mem.buffer) - args.length = (cs + 7) \div 8
      /\ \E hash \in {sha256(args.buffer).digest} :
           \A k \in 0..(cs - 1) :
             BitOf(SubSeq(mem.buffer, args.length + 1, Len(mem.buffer)), k)
               = BitOf(hash, k)

\* the unsigned integer made of the n bits of stream from bit first on, most
\* significant first
RECURSIVE GroupValue(_, _, _)
GroupValue(stream, first, n) ==
  IF n = 0 THEN 0
  ELSE 2 * GroupValue(stream, first, n - 1) + BitOf(stream, first + n - 1)

\* C12: with the 2048-word list, word i of the words generate_mnemonics
\* returns is the word whose index is the i-th successive 11-bit big-endian
\* group of the entropy-plus-checksum stream.
C12_ElevenBitGroups ==
  (pc \in {"print", "done"} /\ words # NULL /\ filename[2] = EN) =>
    \A i \in 1..Len(words) :
      words[i] = Word(GroupValue(entropy, 11 * (i - 1), 11))

\* C13: when the wordlist file chosen does not hold exactly 2048 entries,
\* generate_mnemonics returns no words.
C13_WordlistMismatch ==
  (pc \in {"print", "done"} /\ filename # NULL
     /\ CountNewlines(WordlistFile(filename[2])) # 2048) =>
    words = NULL /\ num_words = 0

\* C14: derive_bip32_master_key called with a seed_len other than 64 returns
\* ERROR_INVALID_LENGTH, calls hmac_sha512 not once and leaves the private-key
\* and chain-code buffers as they were.
C14_InvalidSeedLength ==
  (args.fn = "derive_bip32_master_key" /\ pc # "call"
     /\ args.seed_len # 64) =>
    /\ pc = "done"
    /\ mem.ret = ERROR_INVALID_LENGTH
    /\ mem.hmacs = 0
    /\ mem.private_key = Fill(PRIVATE_KEY_LENGTH, Uninit)
    /\ mem.chain_code = Fill(CHAIN_CODE_LENGTH, Uninit)

C14_Witness ==
  /\ args.fn = "derive_bip32_master_key" /\ pc = "done"
  /\ args.seed_len = 65 /\ Len(args.seed) = 65
  /\ mem.ret = ERROR_INVALID_LENGTH /\ mem.private_key[1] = Uninit

\* ------------------------------------------------- BIP-32 program: input
HexDigits == <<"0", "1", "2", "3", "4", "5", "6", "7", "8", "9",
               "a", "b", "c", "d", "e", "f">>

HexUpper == <<"0", "1", "2", "3", "4", "5", "6", "7", "8", "9",
              "A", "B", "C", "D", "E", "F">>

isxdigit(c) == \E d \in 1..16 : HexDigits[d] = c \/ HexUpper[d] = c

HexValue(c) == (CHOOSE d \in 1..16 : HexDigits[d] = c \/ HexUpper[d] = c) - 1

isspace(c) == c \in {" ", "\t", "\n"}

\* sscanf(str + from, "%2hhx", &byte): white space is skipped, then at most
\* two characters are read: a sign and hexadecimal digits.  ret is 1 when a
\* digit was read, 0 when the first character read cannot start a number,
\* -1 when the string ends before one
Sscanf2hhx(str, from) ==
  Let(CHOOSE p \in from..Len(str) :
        /\ \A k \in from..(p - 1) : isspace(CharAt(str, k))
        /\ ~isspace(CharAt(str, p)), LAMBDA p :
    IF CharAt(str, p) = NUL THEN [ret |-> -1, value |-> 0]
    ELSE IF CharAt(str, p) \in {"+", "-"}
    THEN IF isxdigit(CharAt(str, p + 1))
         THEN [ret |-> 1,
               value |-> IF CharAt(str, p) = "-"
                         THEN (256 - HexValue(CharAt(str, p + 1))) % 256
                         ELSE HexValue(CharAt(str, p + 1))]
         ELSE [ret |-> 0, value |-> 0]
    ELSE IF ~isxdigit(CharAt(str, p)) THEN [ret |-> 0, value |-> 0]
    ELSE IF isxdigit(CharAt(str, p + 1))
    THEN [ret |-> 1, value |-> 16 * HexValue(CharAt(str, p))
                                 + HexValue(CharAt(str, p + 1))]
    ELSE [ret |-> 1, value |-> HexValue(CharAt(str, p))])

\* mutant of HexLengthOk: a longer string is accepted too
HexLengthAtLeast(hex_len, bin_len) == hex_len >= bin_len * 2

\* hex_len != bin_len * 2 is an error
HexLengthOk(hex_len, bin_len) == hex_len = bin_len * 2

\* hex_to_bin(bin, hex, bin_len): the value returned, bin after the call and
\* the number of bytes converted
hex_to_bin(bin, hex0, bin_len) ==
  Let(hex0, LAMBDA hex :
    IF ~HexLengthOk(Len(hex), bin_len)
    THEN [ret |-> ERROR_INVALID_LENGTH, bin |-> bin, converted |-> 0]
    ELSE Let(SubSeq([i \in 1..bin_len |-> Sscanf2hhx(hex, 2 * (i - 1))],
                    1, bin_len), LAMBDA scanned :
           Let(CHOOSE n \in 0..bin_len :
                 /\ \A i \in 1..n : scanned[i].ret = 1
                 /\ (n = bin_len \/ scanned[n + 1].ret # 1), LAMBDA n :
             [ret |-> IF n = bin_len THEN SUCCESS ELSE ERROR_INVALID_INPUT,
              bin |-> SubSeq([i \in 1..Len(bin) |->
                               IF i <= n THEN scanned[i].value ELSE bin[i]],
                             1, Len(bin)),
              converted |-> n])))

\* ----------------------------------------------- BIP-32 program: stages
EXIT_SUCCESS == 0

EXIT_FAILURE == 1

\* printf("%02x", data[i]) for the len bytes of data, with the given digits
HexOf(data, len, digits) ==
  [k \in 1..(2 * len) |->
     IF k % 2 = 1 THEN digits[(data[(k + 1) \div 2] \div 16) + 1]
     ELSE digits[(data[k \div 2] % 16) + 1]]

\* print_hex(label, data, len): the line printed
print_hex(label, data, len) ==
  [label |-> label, text |-> HexOf(data, len, HexDigits) \o <<>>]

\* printf("%s", buffer): the characters before the first '\0'; ub when the
\* array holds none
CString(buffer) ==
  IF \E k \in 1..Len(buffer) : buffer[k] = NUL
  THEN [ub |-> FALSE,
        text |-> SubSeq(buffer, 1,
                   (CHOOSE k \in 1..Len(buffer) :
                      /\ buffer[k] = NUL
                      /\ \A j \in 1..(k - 1) : buffer[j] # NUL) - 1)]
  ELSE [ub |-> TRUE, text |-> <<>>]

MaxHexSeed == 3      \* seeds 0..MaxHexSeed written in hexadecimal

\* a seed in hexadecimal, lower and upper case
GoodHex ==
  {HexOf(DataOf(64, 17 * sd + 5), 64, digits) \o <<>> :
     sd \in 0..MaxHexSeed, digits \in {HexDigits, HexUpper}}

\* strings of another length
WrongLengthHex ==
  {<<>>}
    \cup {SubSeq(h, 1, n) : h \in GoodHex, n \in {2, 64, 126, 127}}
    \cup {h \o t : h \in GoodHex, t \in {<<"0">>, <<"0", "0">>, <<" ">>}}
    \cup {h \o h : h \in GoodHex}

\* 128 characters, one of them not a hexadecimal digit
BadCharHex ==
  {[h EXCEPT ![k] = c] \o <<>> :
     h \in {HexOf(DataOf(64, 5), 64, HexDigits)},
     k \in {1, 2, 63, 64, 127, 128},
     c \in {"g", " ", "-", "+", ":", "x"}}

SeedArgv ==
  {<<Program>>, <<Program, <<"0">>, <<"1">>>>}
    \cup {<<Program, h>> : h \in GoodHex \cup WrongLengthHex \cup BadCharHex}

InitSeed ==
  /\ pc = "main"
  /\ \E argv \in SeedArgv : args = [argv |-> argv]
  /\ mem = [seed |-> Fill(BIP39_SEED_LENGTH, Uninit),
            private_key |-> Fill(PRIVATE_KEY_LENGTH, Uninit),
            chain_code |-> Fill(CHAIN_CODE_LENGTH, Uninit),
            result |-> SUCCESS, stages |-> <<>>, stdout |-> <<>>,
            status |-> EXIT_SUCCESS]
  /\ InitMain

\* mutant of NextStage: the next stage runs whatever the result was
NextStageAlways(result, next) == next

\* if (result != SUCCESS) return result; otherwise the next stage runs
NextStage(result, next) == IF result # SUCCESS THEN "exit" ELSE next

\* main: if (argc != 2) return EXIT_FAILURE; process_bip32_seed(argv[1])
SeedMain ==
  /\ pc = "main"
  /\ IF Len(args.argv) # 2
     THEN pc' = "exit" /\ mem' = [mem EXCEPT !.status = EXIT_FAILURE]
     ELSE pc' = "hex_to_bin" /\ UNCHANGED mem
  /\ UNCHANGED <<args, mainVars>>

\* process_bip32_seed: result = hex_to_bin(seed, seed_hex, sizeof(seed));
\* a result other than SUCCESS is returned, and main returns EXIT_FAILURE
SeedHexToBin ==
  /\ pc = "hex_to_bin"
  /\ \E r \in {hex_to_bin(mem.seed, args.argv[2], BIP39_SEED_LENGTH)} :
       /\ mem' = [mem EXCEPT !.seed = r.bin, !.result = r.ret,
                    !.stages = Append(@, "hex_to_bin"),
                    !.status = IF r.ret # SUCCESS THEN EXIT_FAILURE ELSE @]
       /\ pc' = NextStage(r.ret, "derive")
  /\ UNCHANGED <<args, mainVars>>

\* result = derive_bip32_master_key(seed, sizeof(seed), private_key,
\* chain_code); on SUCCESS the seed, the key and the chain code are printed
SeedDerive ==
  /\ pc = "derive"
  /\ \E r \in {derive_bip32_master_key(mem.seed, BIP39_SEED_LENGTH,
                                       mem.private_key, mem.chain_code)} :
       IF r.ub THEN pc' \in AfterUB /\ UNCHANGED mem
       ELSE /\ mem' = [mem EXCEPT
                    !.private_key = r.private_key,
                    !.chain_code = r.chain_code, !.result = r.ret,
                    !.stages = Append(@, "derive_bip32_master_key"),
                    !.status = IF r.ret # SUCCESS THEN EXIT_FAILURE ELSE @,
                    !.stdout =
                      IF r.ret # SUCCESS THEN @
                      ELSE @ \o <<print_hex("Seed", mem.seed,
                                            BIP39_SEED_LENGTH),
                                  print_hex("Master Private Key",
                                            r.private_key, PRIVATE_KEY_LENGTH),
                                  print_hex("Master Chain Code",
                                            r.chain_code, CHAIN_CODE_LENGTH)>>]
            /\ pc' = NextStage(r.ret, "generate_xprv")
  /\ UNCHANGED <<args, mainVars>>

\* print_xprv_and_wif: result = generate_xprv(private_key, chain_code, xprv)
\* into byte xprv[112]; a failure is returned through process_bip32_seed
\* (after print_ending) to main; otherwise the xprv is printed
SeedPrintXprv ==
  /\ pc = "generate_xprv"
  /\ \E r \in {generate_xprv(mem.private_key, mem.chain_code,
                             Fill(112, Uninit))} :
       IF r.ub THEN pc' \in AfterUB /\ UNCHANGED mem
       ELSE IF r.spin THEN pc' = "spinning" /\ UNCHANGED mem
       ELSE \E s \in {CString(r.out)} :
              IF r.ret = SUCCESS /\ s.ub THEN pc' \in AfterUB /\ UNCHANGED mem
              ELSE /\ mem' = [mem EXCEPT
                           !.result = r.ret,
                           !.stages = Append(@, "generate_xprv"),
                           !.status = IF r.ret # SUCCESS THEN EXIT_FAILURE
                                      ELSE @,
                           !.stdout = IF r.ret # SUCCESS THEN @
                                      ELSE Append(@, [label |-> "xprv",
                                                      text |-> s.text])]
                   /\ pc' = NextStage(r.ret, "private_key_to_wif")
  /\ UNCHANGED <<args, mainVars>>

\* print_xprv_and_wif: result = private_key_to_wif(private_key, wif_key) into
\* byte wif_key[53]; on SUCCESS the WIF is printed; process_bip32_seed
\* returns the result and main turns it into the exit status
SeedPrintWif ==
  /\ pc = "private_key_to_wif"
  /\ \E r \in {private_key_to_wif(mem.private_key, Fill(53, Uninit))} :
       IF r.ub THEN pc' \in AfterUB /\ UNCHANGED mem
       ELSE IF r.spin THEN pc' = "spinning" /\ UNCHANGED mem
       ELSE \E s \in {CString(r.out)} :
              IF r.ret = SUCCESS /\ s.ub THEN pc' \in AfterUB /\ UNCHANGED mem
              ELSE /\ mem' = [mem EXCEPT
                           !.result = r.ret,
                           !.stages = Append(@, "private_key_to_wif"),
                           !.status = IF r.ret # SUCCESS THEN EXIT_FAILURE
                                      ELSE @,
                           !.stdout = IF r.ret # SUCCESS THEN @
                                      ELSE Append(@, [label |-> "WIF",
                                                      text |-> s.text])]
                   /\ pc' = "exit"
  /\ UNCHANGED <<args, mainVars>>

NextSeed ==
  SeedMain \/ SeedHexToBin \/ SeedDerive \/ SeedPrintXprv \/ SeedPrintWif

SpecSeed == InitSeed /\ [][NextSeed]_vars

\* the seed string of a run that was given one
seed_hex == args.argv[2]

\* the run was given a seed string and has left hex_to_bin
AfterHexToBin ==
  Len(args.argv) = 2 /\ pc \notin {"main", "hex_to_bin"}

\* C15: a seed string whose length is not exactly 128 is rejected by
\* hex_to_bin with ERROR_INVALID_LENGTH before any byte is converted, and
\* process_bip32_seed derives and prints no key; only 128-character strings
\* get past hex_to_bin.
C15_SeedStringLength ==
  /\ (AfterHexToBin /\ Len(seed_hex) # 128) =>
       /\ pc = "exit"
       /\ mem.result = ERROR_INVALID_LENGTH
       /\ mem.seed = Fill(BIP39_SEED_LENGTH, Uninit)
       /\ mem.private_key = Fill(PRIVATE_KEY_LENGTH, Uninit)
       /\ mem.stages = <<"hex_to_bin">>
       /\ mem.stdout = <<>>
  /\ (AfterHexToBin /\ mem.stages # <<"hex_to_bin">>) => Len(seed_hex) = 128

C15_Witness ==
  /\ AfterHexToBin /\ Len(seed_hex) = 129
  /\ mem.result = ERROR_INVALID_LENGTH

\* C16: hex_to_bin returns SUCCESS only if all 128 characters are
\* hexadecimal digits; a character that is not one, at any position of a
\* pair, is rejected and no key is derived.
C16_OnlyHexDigits ==
  (AfterHexToBin /\ \E k \in 1..Len(seed_hex) : ~isxdigit(seed_hex[k])) =>
    /\ pc = "exit"
    /\ mem.result # SUCCESS
    /\ mem.stages = <<"hex_to_bin">>
    /\ mem.private_key = Fill(PRIVATE_KEY_LENGTH, Uninit)

\* the stages of process_bip32_seed in the order of the code
SeedStages ==
  <<"hex_to_bin", "derive_bip32_master_key", "generate_xprv",
    "private_key_to_wif">>

\* C17: the stages of process_bip32_seed run in the order hex decoding,
\* derivation, xprv, WIF; a stage runs only after every earlier one returned
\* SUCCESS; the value returned is the code of the first failing stage; main
\* exits with EXIT_FAILURE exactly when that value is not SUCCESS.
C17_StageOrder ==
  Len(args.argv) = 2 =>
    /\ Len(mem.stages) <= 4
    /\ mem.stages = SubSeq(SeedStages, 1, Len(mem.stages))
    /\ pc \in {"hex_to_bin", "derive", "generate_xprv", "private_key_to_wif"}
         => /\ mem.result = SUCCESS
            /\ mem.status = EXIT_SUCCESS
            /\ pc = (<<"hex_to_bin", "derive", "generate_xprv",
                       "private_key_to_wif">>)[Len(mem.stages) + 1]
    /\ pc = "exit" =>
         /\ mem.stages # <<>>
         /\ mem.result # SUCCESS <=> mem.status = EXIT_FAILURE
         /\ mem.result = SUCCESS <=> mem.status = EXIT_SUCCESS
         /\ mem.result = SUCCESS => Len(mem.stages) = 4
         /\ Len(mem.stages) < 4 => mem.result # SUCCESS
         /\ mem.stages = <<"hex_to_bin">> =>
              mem.result = hex_to_bin(Fill(BIP39_SEED_LENGTH, Uninit),
                                      seed_hex, BIP39_SEED_LENGTH).ret

C17_Witness ==
  /\ Len(args.argv) = 2 /\ pc = "exit"
  /\ mem.stages = <<"hex_to_bin">>
  /\ mem.result = ERROR_INVALID_INPUT
  /\ mem.status = EXIT_FAILURE

\* ------------------------------------------ mnemonic program: its stages
\* C18: in the mnemonic program, when receive_input returns a value other
\* than 1, generate_entropy, entropy_checksum_and_concat and
\* generate_mnemonics are not executed in that run.
C18_FailedInputStopsRun ==
  (pc # "main" /\ mem.result # 1) => pc = "generate_entropy"

\* C19: no operation of the pipeline terminates the process; a failure of
\* the random source in generate_entropy or of the reallocation in
\* concat_arrays is returned to the caller.
C19_NoProcessExit == pc # "exited"

\* C20: on every path of the mnemonic program each call of generate_entropy
\* asks for 16, 20, 24, 28 or 32 bytes.
C20_EntropyRequest ==
  pc = "generate_entropy" => num \in {16, 20, 24, 28, 32}

\* ------------------------------------------------ further claims: PBKDF2
\* C21: pbkdf2_hmac_sha512 called with iterations = 0 fails with an
\* invalid-parameter error and writes no byte of derived key to the output.
C21_ZeroIterations ==
  (args.fn = "pbkdf2_hmac_sha512" /\ pc # "call" /\ args.iterations = 0) =>
    /\ mem.off = 0
    /\ mem.output = Fill(args.output_len + SHA512_DIGEST_SIZE, Uninit)

\* ------------------------------------------------ further claims: Base58
\* reference: long division by 256 of the base-58 number v (most significant
\* digit first), the digits lo .. lo + 2^e - 1 of it; st = [q, r]
RECURSIVE RefDivideDigits(_, _, _, _)
RefDivideDigits(st, v, lo, e) ==
  IF lo > Len(v) THEN st
  ELSE IF e = 0
  THEN [q |-> Append(st.q, (st.r * 58 + v[lo]) \div 256),
        r |-> (st.r * 58 + v[lo]) % 256]
  ELSE Let(RefDivideDigits(st, v, lo, e - 1), LAMBDA first :
         RefDivideDigits(first, v, lo + 2 ^ (e - 1), e - 1))

\* reference: 2^e more divisions by 256, st = [v, bytes], the remainders
\* collected most significant first
RECURSIVE RefByteRemainders(_, _)
RefByteRemainders(st, e) ==
  IF e = 0
  THEN Let(RefDivideDigits([q |-> <<>>, r |-> 0], st.v, 1, Span(Len(st.v))),
           LAMBDA d : [v |-> d.q, bytes |-> <<d.r>> \o st.bytes])
  ELSE Let(RefByteRemainders(st, e - 1), LAMBDA first :
         RefByteRemainders(first, e - 1))

\* reference: the inverse of the encoding. One zero byte for each leading
\* '1', then the bytes (most significant first, no leading zero byte) of the
\* integer whose base-58 digits are the remaining characters
RefBase58Decode(text) ==
  Let(LeadingOnes(text), LAMBDA Z :
    Let(RefByteRemainders(
          [v |-> [i \in 1..(Len(text) - Z) |-> RefDigitOf(text[Z + i])],
           bytes |-> <<>>], Span(Len(text) - Z)).bytes, LAMBDA b :
      Zeros(Z) \o SubSeq(b, RefLeadingZeros(b) + 1, Len(b))))

\* C22: decoding the text written by base58_encode with the inverse of the
\* encoding gives back the input bytes (so two different inputs never get
\* the same text).
C22_Base58RoundTrip ==
  (args.fn = "base58_encode" /\ pc # "call") =>
    /\ pc = "done"
    /\ RefBase58Decode(SubSeq(mem.output, 1, mem.ret)) = args.input

C22_Witness ==
  /\ args.fn = "base58_encode" /\ pc = "done"
  /\ Len(args.input) = 37 /\ args.input[1] # 0
  /\ mem.ret >= 50
  /\ RefBase58Decode(SubSeq(mem.output, 1, mem.ret)) = args.input

\* C25: base58_encode terminates for every input: after the output_size
\* passes of the inner loop that update the digits of the scratch buffer the
\* carry is 0, so the loop is left there and never runs on with an index
\* outside 0 .. output_size - 1.
C25_Base58Terminates ==
  (args.fn = "base58_encode" /\ pc # "call") =>
    /\ pc = "done"
    /\ mem.ret <= OutputSize(Len(args.input))
    /\ Len(mem.output) = mem.ret + 1

C25_Witness ==
  /\ args.fn = "base58_encode" /\ pc = "done"
  /\ args.input = <<255, 255, 255>>
  /\ mem.ret = OutputSize(3)

\* C28: for every 32-byte private key and chain code the text written by
\* base58_encode fits the caller's buffer with its terminating NUL: at most
\* 52 characters for the 37-byte WIF record (buffer of 53), at most 111 for
\* the 82-byte extended-key record (buffer of 112).
C28_TextFitsBuffer ==
  /\ (args.fn = "private_key_to_wif" /\ pc # "call") =>
       /\ pc = "done" /\ mem.ret = SUCCESS
       /\ Len(mem.versioned_key) = 37 /\ mem.versioned_key[1] = 128
       /\ Len(mem.wif_key) = 53
       /\ ~CString(mem.wif_key).ub
       /\ Len(CString(mem.wif_key).text) <= 52
       /\ CString(mem.wif_key).text \o <<NUL>>
            = base58_encode(mem.versioned_key).output
  /\ (args.fn = "generate_xprv" /\ pc # "call") =>
       /\ pc = "done" /\ mem.ret = SUCCESS
       /\ Len(mem.xprv_raw) = 82
       /\ SubSeq(mem.xprv_raw, 1, 4) = <<4, 136, 173, 228>>
       /\ Len(mem.xprv) = 112
       /\ ~CString(mem.xprv).ub
       /\ Len(CString(mem.xprv).text) <= 111
       /\ CString(mem.xprv).text \o <<NUL>>
            = base58_encode(mem.xprv_raw).output

C28_Witness ==
  /\ args.fn = "generate_xprv" /\ pc = "done"
  /\ args.private_key = Fill(32, 255) /\ args.chain_code = Fill(32, 255)
  /\ Len(CString(mem.xprv).text) = 111
  /\ mem.xprv[112] = NUL

\* ----------------------------------------------- further claims: hashing
\* C26: for every input length, the nonzero multiples of 128 included,
\* sha512 writes only the indices 0..127 of its block array and passes no
\* negative length to memset.
C26_Sha512StaysInBlock ==
  (args.fn = "sha512" /\ pc # "call") => pc \notin AfterUB

\* the blocks sha256 compresses are those of the standard padded message
Sha256FeedsStandard(data) ==
  sha256(data).fed = StdBlocks(data, SHA256_BLOCK_SIZE, 8)

\* C29: on the inputs private_key_to_wif and generate_xprv give it (33 bytes,
\* 78 bytes and the 32-byte digest of the first pass) sha256 compresses
\* exactly the blocks of the standard padded message: one block for 32 and
\* 33 bytes, two for 78 bytes, the last ending with the 8-byte bit length.
C29_ChecksumHashBlocks ==
  /\ (args.fn = "private_key_to_wif" /\ pc # "call") =>
       \E data \in {SubSeq(mem.versioned_key, 1, 33)} :
         /\ Sha256FeedsStandard(data)
         /\ Len(sha256(data).fed) = 1
         /\ SubSeq(sha256(data).fed[1], 57, 64) = LenBytes(8 * 33)
         /\ Len(sha256(data).digest) = 32
         /\ Sha256FeedsStandard(sha256(data).digest)
         /\ Len(sha256(sha256(data).digest).fed) = 1
  /\ (args.fn = "generate_xprv" /\ pc # "call") =>
       \E data \in {SubSeq(mem.xprv_raw, 1, 78)} :
         /\ Sha256FeedsStandard(data)
         /\ Len(sha256(data).fed) = 2
         /\ SubSeq(sha256(data).fed[2], 57, 64) = LenBytes(8 * 78)
         /\ Len(sha256(data).digest) = 32
         /\ Sha256FeedsStandard(sha256(data).digest)
         /\ Len(sha256(sha256(data).digest).fed) = 1

C29_Witness ==
  /\ args.fn = "generate_xprv" /\ pc = "done"
  /\ Len(sha256(SubSeq(mem.xprv_raw, 1, 78)).fed) = 2
  /\ sha256(SubSeq(mem.xprv_raw, 1, 78)).fed[2][15] = 128
  /\ SubSeq(mem.xprv_raw, 79, 82) = RefChecksum(SubSeq(mem.xprv_raw, 1, 78))

\* the two sha512 calls hmac_sha512 makes for a key of at most one block
HmacCalls(key, data) ==
  Let(HmacKey(key).k, LAMBDA k :
    Let(HmacInner(k, data), LAMBDA inner :
      [inner |-> inner,
       inner_data |-> KeyPad(k, 54) \o data,
       outer |-> HmacOuter(k, inner.digest),
       outer_data |-> KeyPad(k, 92) \o inner.digest]))

\* C30: in the derivation of a master key from a 64-byte seed each of the
\* two sha512 calls of hmac_sha512 (192 bytes each) compresses exactly the
\* two blocks of the standard padded 192-byte message.
C30_HmacHashBlocks ==
  (args.fn = "derive_bip32_master_key" /\ pc = "done"
     /\ args.seed_len = BIP39_SEED_LENGTH) =>
    \E c \in {HmacCalls(BIP32_KEY, args.seed)} :
      /\ Len(c.inner_data) = 192 /\ Len(c.outer_data) = 192
      /\ Len(c.inner.fed) = 2 /\ Len(c.outer.fed) = 2
      /\ c.inner.fed = StdBlocks(c.inner_data, SHA512_BLOCK_SIZE, 16)
      /\ c.outer.fed = StdBlocks(c.outer_data, SHA512_BLOCK_SIZE, 16)

\* --------------------------------------------- further claims: mnemonics
\* C24: for every 11-byte chunk and every wordlist size, powers of two or
\* not, entropy_to_index returns the 88-bit big-endian value of the chunk
\* modulo mnemonics_count, a value in 0 .. mnemonics_count - 1: no byte of
\* the chunk is lost.
C24_IndexOfChunk ==
  (pc \in {"print", "done"} /\ words # NULL) =>
    \E n \in {read_mnemonics(WordlistFile(filename[2])).num_lines} :
      \A i \in 1..num_words :
        \E chunk \in {Bytes(entropy, (i - 1) * 11, 11)} :
          /\ entropy_to_index(chunk, n) \in 0..(n - 1)
          /\ entropy_to_index(chunk, n) = ModBytes(chunk, 11, n)

\* C27: for every content of the wordlist file read_mnemonics stores at most
\* count strings into the array it allocated for count entries, count the
\* number of '\n' in the file; also when the last line has no '\n' and when
\* a line has 15 characters or more.
C27_LinesWithinArray ==
  (filename # NULL /\ pc \in {"print", "done"} \cup AfterUB) =>
    \E file \in {WordlistFile(filename[2])} :
      /\ Len(ReadLines(file, 1, Span(Len(file.lines)))) <= CountNewlines(file)
      /\ ~read_mnemonics(file).ub

\* ------------------------------------------- the compression functions
\* a uint32_t or uint64_t is the sequence of its bits, most significant first
WordOf(bytes) ==
  SubSeq([i \in 1..(8 * Len(bytes)) |->
            Bit(bytes[((i - 1) \div 8) + 1], 7 - ((i - 1) % 8))],
         1, 8 * Len(bytes))

\* the value of the n bits of x from bit lo on
RECURSIVE BitsValue(_, _, _)
BitsValue(x, lo, n) ==
  IF n = 0 THEN 0 ELSE 2 * BitsValue(x, lo, n - 1) + x[lo + n - 1]

\* (x >> (8 * (wb - 1 - j))) & 0xFF for j = 0 .. wb - 1
BytesOfWord(x) == [j \in 1..(Len(x) \div 8) |-> BitsValue(x, 8 * j - 7, 8)]

\* (x >> n) | (x << (width - n))
rotr(x, n) == [i \in 1..Len(x) |-> x[((i - 1 - n + Len(x)) % Len(x)) + 1]]

\* x >> n
ShiftRight(x, n) == [i \in 1..Len(x) |-> IF i <= n THEN 0 ELSE x[i - n]]

\* a ^ b ^ c
Xor3(a, b, c) == [i \in 1..Len(a) |-> (a[i] + b[i] + c[i]) % 2]

\* (x & y) ^ (~x & z)
ch(x, y, z) ==
  [i \in 1..Len(x) |-> (x[i] * y[i] + (1 - x[i]) * z[i]) % 2]

\* (x & y) ^ (x & z) ^ (y & z)
maj(x, y, z) ==
  [i \in 1..Len(x) |-> (x[i] * y[i] + x[i] * z[i] + y[i] * z[i]) % 2]

\* mutant of sigma0: the first rotation of the 32-bit function is by 3
sigma0FirstRotationBy3(x) ==
  IF Len(x) = 64 THEN Xor3(rotr(x, 28), rotr(x, 34), rotr(x, 39))
  ELSE Xor3(rotr(x, 3), rotr(x, 13), rotr(x, 22))

\* sigma0_64 and sigma0
sigma0(x) ==
  IF Len(x) = 64 THEN Xor3(rotr(x, 28), rotr(x, 34), rotr(x, 39))
  ELSE Xor3(rotr(x, 2), rotr(x, 13), rotr(x, 22))

\* sigma1_64 and sigma1
sigma1(x) ==
  IF Len(x) = 64 THEN Xor3(rotr(x, 14), rotr(x, 18), rotr(x, 41))
  ELSE Xor3(rotr(x, 6), rotr(x, 11), rotr(x, 25))

\* gamma0_64 and gamma0
gamma0(x) ==
  IF Len(x) = 64 THEN Xor3(rotr(x, 1), rotr(x, 8), ShiftRight(x, 7))
  ELSE Xor3(rotr(x, 7), rotr(x, 18), ShiftRight(x, 3))

\* gamma1_64 and gamma1
gamma1(x) ==
  IF Len(x) = 64 THEN Xor3(rotr(x, 19), rotr(x, 61), ShiftRight(x, 6))
  ELSE Xor3(rotr(x, 17), rotr(x, 19), ShiftRight(x, 10))

\* the carry out of the 16-bit limbs j + 1, j + 2, ... of the sums s
RECURSIVE LimbCarry(_, _)
LimbCarry(s, j) ==
  IF j >= Len(s) THEN 0 ELSE (s[j + 1] + LimbCarry(s, j + 1)) \div 65536

\* the sum of the words ws on their width (unsigned, wrapping), added by
\* 16-bit limbs
Sum(ws) ==
  Let([j \in 1..(Len(ws[1]) \div 16) |->
         BitsValue(ws[1], 16 * j - 15, 16)
           + (IF Len(ws) >= 2 THEN BitsValue(ws[2], 16 * j - 15, 16) ELSE 0)
           + (IF Len(ws) >= 3 THEN BitsValue(ws[3], 16 * j - 15, 16) ELSE 0)
           + (IF Len(ws) >= 4 THEN BitsValue(ws[4], 16 * j - 15, 16) ELSE 0)
           + (IF Len(ws) >= 5 THEN BitsValue(ws[5], 16 * j - 15, 16) ELSE 0)],
      LAMBDA s :
    Let([j \in 1..Len(s) |-> (s[j] + LimbCarry(s, j)) % 65536], LAMBDA limbs :
      SubSeq([i \in 1..(16 * Len(limbs)) |->
                Bit(limbs[((i - 1) \div 16) + 1], 15 - ((i - 1) % 16))],
             1, 16 * Len(limbs))))

\* static const uint32_t k[64], each constant as its 4 bytes
k256 ==
  << <<66, 138, 47, 152>>, <<113, 55, 68, 145>>, <<181, 192, 251, 207>>,
     <<233, 181, 219, 165>>, <<57, 86, 194, 91>>, <<89, 241, 17, 241>>,
     <<146, 63, 130, 164>>, <<171, 28, 94, 213>>, <<216, 7, 170, 152>>,
     <<18, 131, 91, 1>>, <<36, 49, 133, 190>>, <<85, 12, 125, 195>>,
     <<114, 190, 93, 116>>, <<128, 222, 177, 254>>, <<155, 220, 6, 167>>,
     <<193, 155, 241, 116>>, <<228, 155, 105, 193>>, <<239, 190, 71, 134>>,
     <<15, 193, 157, 198>>, <<36, 12, 161, 204>>, <<45, 233, 44, 111>>,
     <<74, 116, 132, 170>>, <<92, 176, 169, 220>>, <<118, 249, 136, 218>>,
     <<152, 62, 81, 82>>, <<168, 49, 198, 109>>, <<176, 3, 39, 200>>,
     <<191, 89, 127, 199>>, <<198, 224, 11, 243>>, <<213, 167, 145, 71>>,
     <<6, 202, 99, 81>>, <<20, 41, 41, 103>>, <<39, 183, 10, 133>>,
     <<46, 27, 33, 56>>, <<77, 44, 109, 252>>, <<83, 56, 13, 19>>,
     <<101, 10, 115, 84>>, <<118, 106, 10, 187>>, <<129, 194, 201, 46>>,
     <<146, 114, 44, 133>>, <<162, 191, 232, 161>>, <<168, 26, 102, 75>>,
     <<194, 75, 139, 112>>, <<199, 108, 81, 163>>, <<209, 146, 232, 25>>,
     <<214, 153, 6, 36>>, <<244, 14, 53, 133>>, <<16, 106, 160, 112>>,
     <<25, 164, 193, 22>>, <<30, 55, 108, 8>>, <<39, 72, 119, 76>>,
     <<52, 176, 188, 181>>, <<57, 28, 12, 179>>, <<78, 216, 170, 74>>,
     <<91, 156, 202, 79>>, <<104, 46, 111, 243>>, <<116, 143, 130, 238>>,
     <<120, 165, 99, 111>>, <<132, 200, 120, 20>>, <<140, 199, 2, 8>>,
     <<144, 190, 255, 250>>, <<164, 80, 108, 235>>, <<190, 249, 163, 247>>,
     <<198, 113, 120, 242>> >>

\* static const uint64_t k512[80], each constant as its 8 bytes
k512 ==
  << <<66, 138, 47, 152, 215, 40, 174, 34>>, <<113, 55, 68, 145, 35, 239, 101, 205>>,
     <<181, 192, 251, 207, 236, 77, 59, 47>>, <<233, 181, 219, 165, 129, 137, 219, 188>>,
     <<57, 86, 194, 91, 243, 72, 181, 56>>, <<89, 241, 17, 241, 182, 5, 208, 25>>,
     <<146, 63, 130, 164, 175, 25, 79, 155>>, <<171, 28, 94, 213, 218, 109, 129, 24>>,
     <<216, 7, 170, 152, 163, 3, 2, 66>>, <<18, 131, 91, 1, 69, 112, 111, 190>>,
     <<36, 49, 133, 190, 78, 228, 178, 140>>, <<85, 12, 125, 195, 213, 255, 180, 226>>,
     <<114, 190, 93, 116, 242, 123, 137, 111>>, <<128, 222, 177, 254, 59, 22, 150, 177>>,
     <<155, 220, 6, 167, 37, 199, 18, 53>>, <<193, 155, 241, 116, 207, 105, 38, 148>>,
     <<228, 155, 105, 193, 158, 241, 74, 210>>, <<239, 190, 71, 134, 56, 79, 37, 227>>,
     <<15, 193, 157, 198, 139, 140, 213, 181>>, <<36, 12, 161, 204, 119, 172, 156, 101>>,
     <<45, 233, 44, 111, 89, 43, 2, 117>>, <<74, 116, 132, 170, 110, 166, 228, 131>>,
     <<92, 176, 169, 220, 189, 65, 251, 212>>, <<118, 249, 136, 218, 131, 17, 83, 181>>,
     <<152, 62, 81, 82, 238, 102, 223, 171>>, <<168, 49, 198, 109, 45, 180, 50, 16>>,
     <<176, 3, 39, 200, 152, 251, 33, 63>>, <<191, 89, 127, 199, 190, 239, 14, 228>>,
     <<198, 224, 11, 243, 61, 168, 143, 194>>, <<213, 167, 145, 71, 147, 10, 167, 37>>,
     <<6, 202, 99, 81, 224, 3, 130, 111>>, <<20, 41, 41, 103, 10, 14, 110, 112>>,
     <<39, 183, 10, 133, 70, 210, 47, 252>>, <<46, 27, 33, 56, 92, 38, 201, 38>>,
     <<77, 44, 109, 252, 90, 196, 42, 237>>, <<83, 56, 13, 19, 157, 149, 179, 223>>,
     <<101, 10, 115, 84, 139, 175, 99, 222>>, <<118, 106, 10, 187, 60, 119, 178, 168>>,
     <<129, 194, 201, 46, 71, 237, 174, 230>>, <<146, 114, 44, 133, 20, 130, 53, 59>>,
     <<162, 191, 232, 161, 76, 241, 3, 100>>, <<168, 26, 102, 75, 188, 66, 48, 1>>,
     <<194, 75, 139, 112, 208, 248, 151, 145>>, <<199, 108, 81, 163, 6, 84, 190, 48>>,
     <<209, 146, 232, 25, 214, 239, 82, 24>>, <<214, 153, 6, 36, 85, 101, 169, 16>>,
     <<244, 14, 53, 133, 87, 113, 32, 42>>, <<16, 106, 160, 112, 50, 187, 209, 184>>,
     <<25, 164, 193, 22, 184, 210, 208, 200>>, <<30, 55, 108, 8, 81, 65, 171, 83>>,
     <<39, 72, 119, 76, 223, 142, 235, 153>>, <<52, 176, 188, 181, 225, 155, 72, 168>>,
     <<57, 28, 12, 179, 197, 201, 90, 99>>, <<78, 216, 170, 74, 227, 65, 138, 203>>,
     <<91, 156, 202, 79, 119, 99, 227, 115>>, <<104, 46, 111, 243, 214, 178, 184, 163>>,
     <<116, 143, 130, 238, 93, 239, 178, 252>>, <<120, 165, 99, 111, 67, 23, 47, 96>>,
     <<132, 200, 120, 20, 161, 240, 171, 114>>, <<140, 199, 2, 8, 26, 100, 57, 236>>,
     <<144, 190, 255, 250, 35, 99, 30, 40>>, <<164, 80, 108, 235, 222, 130, 189, 233>>,
     <<190, 249, 163, 247, 178, 198, 121, 21>>, <<198, 113, 120, 242, 227, 114, 83, 43>>,
     <<202, 39, 62, 206, 234, 38, 97, 156>>, <<209, 134, 184, 199, 33, 192, 194, 7>>,
     <<234, 218, 125, 214, 205, 224, 235, 30>>, <<245, 125, 79, 127, 238, 110, 209, 120>>,
     <<6, 240, 103, 170, 114, 23, 111, 186>>, <<10, 99, 125, 197, 162, 200, 152, 166>>,
     <<17, 63, 152, 4, 190, 249, 13, 174>>, <<27, 113, 11, 53, 19, 28, 71, 27>>,
     <<40, 219, 119, 245, 35, 4, 125, 132>>, <<50, 202, 171, 123, 64, 199, 36, 147>>,
     <<60, 158, 190, 10, 21, 201, 190, 188>>, <<67, 29, 103, 196, 156, 16, 13, 76>>,
     <<76, 197, 212, 190, 203, 62, 66, 182>>, <<89, 127, 41, 156, 252, 101, 126, 42>>,
     <<95, 203, 111, 171, 58, 214, 250, 236>>, <<108, 68, 25, 140, 74, 71, 88, 23>> >>

\* one pass of for (t = 0; t < 80; t++) (64 for sha256) on
\* v = <<a, b, c, d, e, f, g, hh>> with the constant kt and the word wt
Round(v, kt, wt) ==
  Let(Sum(<<v[8], sigma1(v[5]), ch(v[5], v[6], v[7]), kt, wt>>), LAMBDA t1 :
    Let(Sum(<<sigma0(v[1]), maj(v[1], v[2], v[3])>>), LAMBDA t2 :
      <<Sum(<<t1, t2>>), v[1], v[2], v[3], Sum(<<v[4], t1>>), v[5], v[6],
        v[7]>>))

\* w[t] = gamma1(w[t - 2]) + w[t - 7] + gamma0(w[t - 15]) + w[t - 16], with
\* w16 = <<w[t - 16], ..., w[t - 1]>>
NextW(w16) == Sum(<<gamma1(w16[15]), w16[10], gamma0(w16[2]), w16[1]>>)

\* ------------------------------------- the program, hashes computed
\* the run printed in the README: the argument and the values printed
Transcript ==
  [seed_hex |->
     << "2", "f", "0", "0", "2", "0", "1", "a", "8", "4", "3", "b", "f", "3",
        "6", "7", "e", "d", "4", "5", "f", "d", "a", "5", "2", "e", "a", "0",
        "d", "3", "a", "b", "a", "2", "1", "e", "e", "7", "3", "0", "a", "d",
        "1", "a", "9", "3", "1", "8", "9", "e", "6", "7", "a", "e", "0", "e",
        "6", "f", "a", "a", "e", "4", "b", "b", "3", "a", "3", "2", "6", "2",
        "9", "b", "9", "5", "5", "d", "1", "c", "f", "c", "d", "e", "3", "b",
        "e", "c", "c", "2", "5", "f", "2", "e", "3", "9", "5", "1", "9", "e",
        "1", "e", "5", "d", "9", "e", "e", "8", "3", "1", "8", "c", "6", "2",
        "1", "7", "b", "1", "1", "b", "c", "e", "d", "b", "9", "f", "9", "6",
        "8", "3" >>,
   private_key |->
     << "6", "7", "3", "c", "b", "6", "1", "c", "b", "d", "e", "b", "6", "7",
        "b", "8", "e", "c", "c", "e", "8", "c", "4", "4", "0", "2", "1", "d",
        "e", "f", "a", "9", "9", "2", "7", "8", "7", "c", "5", "4", "6", "5",
        "6", "9", "3", "2", "7", "b", "4", "3", "2", "8", "f", "e", "8", "0",
        "9", "d", "e", "3", "1", "c", "c", "b" >>,
   chain_code |->
     << "6", "5", "5", "2", "a", "f", "d", "f", "4", "b", "c", "3", "a", "9",
        "2", "7", "7", "9", "5", "f", "b", "5", "5", "a", "2", "a", "c", "9",
        "a", "7", "3", "7", "4", "7", "4", "7", "b", "e", "8", "0", "2", "3",
        "3", "2", "9", "9", "3", "7", "1", "5", "7", "a", "9", "5", "c", "a",
        "e", "4", "9", "b", "2", "0", "0", "f" >>,
   xprv |->
     << "x", "p", "r", "v", "9", "s", "2", "1", "Z", "r", "Q", "H", "1", "4",
        "3", "K", "3", "4", "s", "B", "v", "F", "p", "f", "d", "X", "V", "R",
        "V", "7", "h", "j", "5", "Y", "X", "S", "c", "W", "B", "3", "o", "S",
        "Q", "B", "Z", "u", "h", "7", "4", "X", "L", "M", "1", "e", "Y", "M",
        "Z", "y", "b", "G", "P", "y", "9", "e", "g", "g", "e", "B", "9", "2",
        "J", "2", "T", "s", "7", "Q", "G", "K", "5", "Z", "1", "8", "9", "k",
        "9", "x", "o", "o", "p", "p", "5", "j", "1", "t", "B", "A", "f", "H",
        "7", "C", "E", "h", "b", "b", "d", "P", "5", "C", "D", "U", "H" >>,
   WIF |->
     << "5", "J", "b", "k", "d", "q", "u", "Z", "p", "2", "d", "d", "n", "n",
        "n", "g", "1", "F", "A", "s", "d", "m", "R", "j", "Z", "L", "i", "E",
        "d", "E", "t", "k", "3", "j", "6", "H", "w", "N", "L", "7", "i", "C",
        "a", "o", "Z", "V", "r", "g", "u", "z", "Q" >>]

\* the arguments of the runs: the seed of the transcript as printed, the same
\* seed in upper case, and a string that is no seed
RunArgv ==
  {<<Program, Transcript.seed_hex>>,
   <<Program, [i \in 1..128 |->
                 HexUpper[HexValue(Transcript.seed_hex[i]) + 1]] \o <<>>>>,
   <<Program, SubSeq(Transcript.seed_hex, 1, 64)>>}

InitRun ==
  /\ pc = "main"
  /\ \E argv \in RunArgv : args = [argv |-> argv]
  /\ mem = [call |-> "none", blocks |-> <<>>, h |-> <<>>, v |-> <<>>,
            w |-> <<>>, t |-> 0, result |-> SUCCESS,
            seed |-> Fill(BIP39_SEED_LENGTH, Uninit),
            private_key |-> Fill(PRIVATE_KEY_LENGTH, Uninit),
            chain_code |-> Fill(CHAIN_CODE_LENGTH, Uninit),
            xprv_raw |-> Fill(82, Uninit), xprv |-> Fill(112, Uninit),
            versioned_key |-> Fill(37, Uninit), wif_key |-> Fill(53, Uninit)]
  /\ InitMain

\* a call of sha512 or sha256 begins: h is set to the initial values H and
\* the blocks the loop of the function compresses are those of fed
StartHash(m, call, fed, H) ==
  [m EXCEPT !.call = call, !.blocks = fed,
            !.h = [i \in 1..8 |-> WordOf(H[i])], !.v = <<>>, !.w = <<>>,
            !.t = 0]

\* the round constants of the running call
RoundConstants(m) == IF Len(m.h[1]) = 64 THEN k512 ELSE k256

\* the digest written from h, most significant byte first
DigestOf(m) ==
  Flatten([i \in 1..8 |-> BytesOfWord(m.h[i])], Len(m.h[1]) \div 8)

\* main and process_bip32_seed up to the first sha512 call of hmac_sha512:
\* hex_to_bin, then derive_bip32_master_key with the key "Bitcoin seed"
RunMain ==
  /\ pc = "main"
  /\ \E r \in {hex_to_bin(mem.seed, args.argv[2], BIP39_SEED_LENGTH)} :
       IF r.ret # SUCCESS
       THEN /\ pc' = "exit"
            /\ mem' = [mem EXCEPT !.result = r.ret, !.seed = r.bin]
       ELSE /\ pc' = "block"
            /\ mem' = StartHash([mem EXCEPT !.seed = r.bin], "hmac inner",
                                HmacInner(HmacKey(BIP32_KEY).k, r.bin).fed,
                                H512)
  /\ UNCHANGED <<args, mainVars>>

\* the next block is compressed: w[0..15] are read from it and a..hh from h
LoadBlock ==
  /\ pc = "block" /\ mem.blocks # <<>>
  /\ pc' = "round"
  /\ mem' = [mem EXCEPT
       !.v = mem.h, !.t = 0,
       !.w = [t \in 1..16 |->
                WordOf(Bytes(mem.blocks[1], (t - 1) * (Len(mem.h[1]) \div 8),
                             Len(mem.h[1]) \div 8))]]
  /\ UNCHANGED <<args, mainVars>>

\* one pass of the loop over t; mem.w holds w[t], ..., w[t + 15], of which
\* w[t + 16] is computed when the loop will need it
RoundStep ==
  /\ pc = "round" /\ mem.t < Len(RoundConstants(mem))
  /\ mem' = [mem EXCEPT
       !.v = Round(mem.v, WordOf(RoundConstants(mem)[mem.t + 1]), mem.w[1]),
       !.t = mem.t + 1,
       !.w = IF mem.t + 16 < Len(RoundConstants(mem))
             THEN Tail(mem.w) \o <<NextW(mem.w)>>
             ELSE Tail(mem.w)]
  /\ UNCHANGED <<pc, args, mainVars>>

\* h[0] += a; ... h[7] += hh; block_len = 0;
AddBlock ==
  /\ pc = "round" /\ mem.t = Len(RoundConstants(mem))
  /\ pc' = "block"
  /\ mem' = [mem EXCEPT
       !.h = [i \in 1..8 |-> Sum(<<mem.h[i], mem.v[i]>>)],
       !.blocks = Tail(mem.blocks), !.v = <<>>, !.w = <<>>, !.t = 0]
  /\ UNCHANGED <<args, mainVars>>

\* what follows the return of the running hash call with its digest: the
\* second sha512 of hmac_sha512; the two halves of the master key and the
\* first sha256 of generate_xprv; its second sha256; the checksum, the text
\* and the first sha256 of private_key_to_wif; its second sha256; the
\* checksum and the text
AfterHash(m, digest) ==
  CASE m.call = "hmac inner" ->
         StartHash(m, "hmac outer",
                   HmacOuter(HmacKey(BIP32_KEY).k, digest).fed, H512)
    [] m.call = "hmac outer" ->
         Let2(Bytes(digest, 0, PRIVATE_KEY_LENGTH),
              Bytes(digest, PRIVATE_KEY_LENGTH, CHAIN_CODE_LENGTH),
              LAMBDA private_key, chain_code :
           StartHash([m EXCEPT !.private_key = private_key,
                               !.chain_code = chain_code,
                               !.xprv_raw = XprvFields(private_key,
                                                       chain_code)],
                     "xprv first",
                     sha256(Bytes(XprvFields(private_key, chain_code),
                                  0, 78)).fed, H256))
    [] m.call = "xprv first" ->
         StartHash(m, "xprv second", sha256(digest).fed, H256)
    [] m.call = "xprv second" ->
         Let2(Memcpy(m.xprv_raw, 78, digest, 4),
              Memcpy(<<WIF_VERSION_BYTE>> \o Fill(PRIVATE_KEY_LENGTH + 4,
                                                  Uninit),
                     1, m.private_key, PRIVATE_KEY_LENGTH),
              LAMBDA xprv_raw, versioned_key :
           StartHash([m EXCEPT !.xprv_raw = xprv_raw,
                               !.xprv = EncodeRecord(xprv_raw, m.xprv).out,
                               !.versioned_key = versioned_key],
                     "wif first",
                     sha256(Bytes(versioned_key, 0,
                                  PRIVATE_KEY_LENGTH + 1)).fed, H256))
    [] m.call = "wif first" ->
         StartHash(m, "wif second", sha256(digest).fed, H256)
    [] m.call = "wif second" ->
         Let(Memcpy(m.versioned_key, PRIVATE_KEY_LENGTH + 1, digest, 4),
             LAMBDA versioned_key :
           [m EXCEPT !.call = "none", !.versioned_key = versioned_key,
                     !.wif_key = EncodeRecord(versioned_key, m.wif_key).out])

\* the loop of the hash function has ended: the digest is written and the
\* caller goes on
FinishHash ==
  /\ pc = "block" /\ mem.blocks = <<>>
  /\ mem' = AfterHash(mem, DigestOf(mem))
  /\ pc' = IF mem.call = "wif second" THEN "exit" ELSE "block"
  /\ UNCHANGED <<args, mainVars>>

NextRun == RunMain \/ LoadBlock \/ RoundStep \/ AddBlock \/ FinishHash

SpecRun == InitRun /\ [][NextRun]_vars

\* C23: for the seed of the reference transcript the program prints the
\* master private key, the chain code, the xprv and the WIF of the
\* transcript, character for character.
C23_ReferenceTranscript ==
  (pc = "exit" /\ mem.result = SUCCESS
     /\ mem.seed = hex_to_bin(Fill(BIP39_SEED_LENGTH, Uninit),
                              Transcript.seed_hex, BIP39_SEED_LENGTH).bin) =>
    /\ print_hex("Seed", mem.seed, BIP39_SEED_LENGTH).text
         = Transcript.seed_hex
    /\ print_hex("Master Private Key", mem.private_key,
                 PRIVATE_KEY_LENGTH).text = Transcript.private_key
    /\ print_hex("Master Chain Code", mem.chain_code,
                 CHAIN_CODE_LENGTH).text = Transcript.chain_code
    /\ CString(mem.xprv).text = Transcript.xprv
    /\ CString(mem.wif_key).text = Transcript.WIF

C23_Witness ==
  /\ pc = "exit" /\ mem.result = SUCCESS
  /\ args.argv[2] = Transcript.seed_hex
  /\ CString(mem.wif_key).text = Transcript.WIF
  /\ mem.blocks = <<>>

=============================================================================
